---- MODULE Spec2Model ----
(***************************************************************************)
(* Usage ledger, task gates, pending video jobs and the image / video      *)
(* orchestration of aka-ai-generator (UserManager.ts, VideoOrchestrator.ts *)
(* and the command handlers of index.ts).                                  *)
(*                                                                         *)
(* Time is counted in ticks.  A calendar day is TicksPerDay ticks long.    *)
(* Of UserData the fields that only label or date an account (userName,    *)
(* lastUsed, createdAt, donationCount, donationAmount) are left out, and   *)
(* lastDailyReset is kept as the calendar day of the timestamp the code    *)
(* stores: the code reads it only through toDateString.                    *)
(* Every asynchronous handler is cut at the awaits at which another        *)
(* handler can observe or change the state it uses.                        *)
(***************************************************************************)
EXTENDS Integers, Sequences, FiniteSets, TLC

VARIABLES
  usersCache,        \* UserManager.usersCache: userId -> UserData
  usersDisk,         \* users_data.json
  rechargeHistory,   \* recharge_history.json, records in file order
  rateLimitMap,      \* UserManager.rateLimitMap: userId -> timestamps
  now,               \* Date.now()
  unitsPassed,       \* history: units handed to consumeQuota / recordUsageOnly per user
  uncovered,         \* history: units consumeQuota found no balance for, per user
  lpc,               \* position of each check-then-consume request of SpecBounded
  lastCall,          \* history: the last call SpecCalls made of a ledger method, with its
                     \* arguments, the tables before it and what it returned
  activeVideoTasks,  \* UserManager.activeVideoTasks: userId -> the request that set the
                     \* entry (0: no entry; the code stores 'processing')
  pendingVideoCache, \* keys of UserManager.pendingVideoCache.tasks
  chargedTasks,      \* task objects whose charged field is true (a deleted record's
                     \* object lives on in the handlers that fetched it)
  chargedAt,         \* their chargedAt field (NoTime: not set)
  jobStatus,         \* the provider's status of each video job
  vpc,               \* position of each video command
  vUser,             \* session.userId of each video command
  vOutcome,          \* what each video command returned
  chargeCalls,       \* history: recordUserUsage calls made for each video job
  qpc,               \* position of each 查询视频 command
  qUser,             \* session.userId of each 查询视频 command
  qTask,             \* the task a 查询视频 command is handling
  qStatus,           \* the status it got from queryTaskStatus
  qPending,          \* whether it holds a pending record object for the task
  qRest,             \* tasks of its list it has not handled yet
  activeTasks,       \* UserManager.activeTasks: userId -> the request that set the
                     \* entry (0: no entry; the code stores 'processing')
  securityBlockMap,  \* UserManager.securityBlockMap: userId -> block timestamps
  securityWarningMap,\* UserManager.securityWarningMap: userId -> warned
  ipc,               \* position of each image command
  iUser,             \* session.userId of each image command
  iNum,              \* requestContext.numImages of each image command
  iStream,           \* whether its provider calls onImageGenerated
  isTimeout,         \* processImageWithTimeout's flag, set by the deadline timer
  iOutcome,          \* what the command returned to the user
  allImages,         \* number of images the provider has produced for it
  sentImages,        \* number of images session.send delivered to the user
  creditDeducted,    \* processImage's flag
  usageCalls,        \* history: recordUserUsage calls processImage made for it
  usageUnits,        \* history: units of those calls
  penaltyCalls,      \* history: recordUserUsage calls recordSecurityBlock made for it
  promise,           \* AsyncLock.promise of dataLock, historyLock and pendingLock
  resolved,          \* the promises whose resolve function (release) has been called
  loaded,            \* whether the table's cache (usersCache, pendingVideoCache) is set
  tableLog,          \* each table: the callers whose mutation it holds, in write order
  cpc,               \* position of each caller of a ledger operation
  cTable,            \* the table its operation works on
  previousPromise,   \* acquire's local: the promise it awaits before running fn
  cSnapshot,         \* the table as fn read it
  cOutcome,          \* how the operation's promise settled
  callOrder,         \* history: each lock's acquire calls, in the order they were made
  runOrder           \* history: each lock's acquire calls, in the order fn was started

lockVars == <<promise, resolved, loaded, tableLog, cpc, cTable, previousPromise, cSnapshot,
             cOutcome, callOrder, runOrder>>

ledgerVars == <<usersCache, usersDisk, rechargeHistory, rateLimitMap, now, unitsPassed,
               uncovered, lpc, lastCall, lockVars>>

videoVars == <<activeVideoTasks, pendingVideoCache, chargedTasks, chargedAt, jobStatus, vpc, vUser,
               vOutcome, chargeCalls, qpc, qUser, qTask, qStatus, qPending, qRest>>

imageVars == <<activeTasks, securityBlockMap, securityWarningMap, ipc, iUser, iNum, iStream,
               isTimeout, iOutcome, allImages, sentImages, creditDeducted, usageCalls,
               usageUnits, penaltyCalls>>

offLedger == <<videoVars, imageVars>>

vars == <<ledgerVars, videoVars, imageVars>>

-----------------------------------------------------------------------------
(* Configuration and bounds *)

Users == {"alice", "bob"}
adminUsers == {"bob"}
Platforms == {"qq", "lark"}
unlimitedPlatforms == {"lark"}

dailyFreeLimit == 1
rateLimitWindow == 1
rateLimitMax == 3
TicksPerSecond == 1
TicksPerDay == 2
MaxNow == 2
MaxUnits == 2
MaxUsage == 3
MaxAmount == 1
MaxPurchased == 2
NumRequests == 4
BoundedQuota == 3
NumVideoRequests == 2
NumQueries == 1
NumImageRequests == 2
securityBlockWindow == 1
securityBlockWarningThreshold == 1
videoCreditsMultiplier == 1
PendingMax == 1
MaxCalls == 2
MaxRateCalls == 5
MaxBlocks == 3
NumCallers == 3

Requests == 1..NumRequests
VideoRequests == 1..NumVideoRequests
Queries == 1..NumQueries
ImageRequests == 1..NumImageRequests

Min(a, b) == IF a < b THEN a ELSE b
Max(a, b) == IF a > b THEN a ELSE b

Put(f, k, v) == [x \in (DOMAIN f) \cup {k} |-> IF x = k THEN v ELSE f[x]]

\* new Date(x).toDateString(): the calendar day of a timestamp
toDateString(t) == t \div TicksPerDay

isAdmin(userId) == userId \in adminUsers

\* variant: no platform is exempt
isPlatformExempt_never(platform) == FALSE

isPlatformExempt(platform) == platform \in unlimitedPlatforms

\* variant: a new account starts with a purchased unit
NewUserData_bonus(t) ==
  [totalUsageCount |-> 0, dailyUsageCount |-> 0, lastDailyReset |-> toDateString(t),
   purchasedCount |-> 1, remainingPurchasedCount |-> 1]

\* the record getUserData / consumeQuota / recordUsageOnly / the recharge create
NewUserData(t) ==
  [totalUsageCount |-> 0, dailyUsageCount |-> 0, lastDailyReset |-> toDateString(t),
   purchasedCount |-> 0, remainingPurchasedCount |-> 0]

-----------------------------------------------------------------------------
(* Rate limiter *)

\* config.rateLimitWindow * 1000, in the clock's ticks
windowTicks(seconds) == seconds * TicksPerSecond

\* Math.ceil(ticks / 1000)
ceilSeconds(ticks) == (ticks + TicksPerSecond - 1) \div TicksPerSecond

validTimestamps(map, userId, t) ==
  SelectSeq(map[userId], LAMBDA ts : ts > t - windowTicks(rateLimitWindow))

\* variant: the window admits one call more
rateLimitAdmits_upto(valid) == Len(valid) <= rateLimitMax

rateLimitAdmits(valid) == Len(valid) < rateLimitMax

\* checkRateLimit: prunes the window, stores it, admits or states the wait
checkRateLimit(map, userId, t) ==
  LET valid == validTimestamps(map, userId, t)
  IN  [allowed |-> rateLimitAdmits(valid),
       map     |-> [map EXCEPT ![userId] = valid],
       wait    |-> IF rateLimitAdmits(valid) THEN 0
                   ELSE ceilSeconds(valid[1] + windowTicks(rateLimitWindow) - t)]

updateRateLimit(map, userId, t) == [map EXCEPT ![userId] = Append(@, t)]

\* variant: a denied attempt is recorded too
deniedWindow_recorded(map, userId, t) == updateRateLimit(map, userId, t)

\* checkAndReserveQuota returns at a denial of checkRateLimit, before updateRateLimit:
\* the window is what checkRateLimit stored
deniedWindow(map, userId, t) == map

-----------------------------------------------------------------------------
(* Quota manager *)

\* the account the locked part of checkAndReserveQuota reads
\* (getUserData has created it when it was missing)
\* variant: the day never counts as changed
dayChanged_never(today, lastReset) == FALSE

\* today !== lastReset
dayChanged(today, lastReset) == today # lastReset

effectiveDaily(userData, t) ==
  IF dayChanged(toDateString(t), userData.lastDailyReset) THEN 0 ELSE userData.dailyUsageCount

remainingToday(userData, t) == Max(0, dailyFreeLimit - effectiveDaily(userData, t))

totalAvailable(userData, t) == remainingToday(userData, t) + userData.remainingPurchasedCount

\* variant: the request must leave a unit over
quotaAllows_strict(userData, numImages, t) == ~(totalAvailable(userData, t) <= numImages)

quotaAllows(userData, numImages, t) == ~(totalAvailable(userData, t) < numImages)

\* the numbers the denial message of checkAndReserveQuota states
quotaMessage(userData, numImages, t) ==
  <<"quota", numImages, remainingToday(userData, t), userData.remainingPurchasedCount,
    totalAvailable(userData, t)>>

\* consumeQuota, the part that computes the new account and the result
\* variant: a usage adds one to the counter, however many units it carries
totalAfterUse_oneEach(total, numImages) == total + 1

totalAfterUse(total, numImages) == total + numImages

\* variant: the purchased balance is charged the whole remainder, without the cap
purchasedToUse_uncapped(remaining, remainingToConsume) == remainingToConsume

purchasedToUse(remaining, remainingToConsume) == Min(remaining, remainingToConsume)

\* variant: the free allowance takes the whole request, without the cap
freeToUse_uncapped(availableFree, remainingToConsume) == remainingToConsume

\* variant: nothing is taken from the free allowance
freeToUse_none(availableFree, remainingToConsume) == 0

freeToUse(availableFree, remainingToConsume) == Min(availableFree, remainingToConsume)

consumeQuotaOn(userData0, numImages, t) ==
  LET u1 == [userData0 EXCEPT !.totalUsageCount = totalAfterUse(@, numImages)]
      u2 == IF dayChanged(toDateString(t), u1.lastDailyReset)
              THEN [u1 EXCEPT !.dailyUsageCount = 0, !.lastDailyReset = toDateString(t)]
              ELSE u1
      availableFree == Max(0, dailyFreeLimit - u2.dailyUsageCount)
      freeUsed == IF availableFree > 0 THEN freeToUse(availableFree, numImages) ELSE 0
      rest == numImages - freeUsed
      purchasedUsed == IF rest > 0 THEN purchasedToUse(u2.remainingPurchasedCount, rest) ELSE 0
      u3 == [u2 EXCEPT !.dailyUsageCount = @ + freeUsed,
                       !.remainingPurchasedCount = @ - purchasedUsed]
  IN  [userData |-> u3,
       consumptionType |-> IF freeUsed > 0 /\ purchasedUsed > 0 THEN "mixed"
                           ELSE IF freeUsed > 0 THEN "free" ELSE "purchased",
       freeUsed |-> freeUsed, purchasedUsed |-> purchasedUsed]

\* variant: the usage record also counts against the day's free allowance
recordUsageOnlyOn_daily(userData0, numImages, t) ==
  [userData0 EXCEPT !.totalUsageCount = totalAfterUse(@, numImages),
                    !.dailyUsageCount = @ + numImages]

\* recordUsageOnly, the new account
recordUsageOnlyOn(userData0, numImages, t) ==
  [userData0 EXCEPT !.totalUsageCount = totalAfterUse(@, numImages)]

accountOf(cache, userId, t) == IF userId \in DOMAIN cache THEN cache[userId] ELSE NewUserData(t)

-----------------------------------------------------------------------------
(* Ledger operations.  Each is one run of the handler: the rate-limiter part  *)
(* touches only rateLimitMap, the rest runs under dataLock and ends with the  *)
(* write of the whole cache to disk (saveUsersDataInternal), which may throw. *)

\* checkAndReserveQuota(userId, userName, numImages, config, platform)
checkAndReserveQuota(userId, numImages, platform, diskOk) ==
  LET rl == checkRateLimit(rateLimitMap, userId, now)
      created == Put(usersCache, userId, NewUserData(now))
  IN
  /\ UNCHANGED <<rechargeHistory, now, unitsPassed, uncovered>>
  /\ IF isAdmin(userId) \/ isPlatformExempt(platform)
        THEN UNCHANGED <<usersCache, usersDisk, rateLimitMap>>
      ELSE IF ~rl.allowed
        THEN /\ rateLimitMap' = deniedWindow(rl.map, userId, now)
             /\ UNCHANGED <<usersCache, usersDisk>>
      ELSE /\ rateLimitMap' = updateRateLimit(rl.map, userId, now)
           /\ IF userId \in DOMAIN usersCache
                 THEN UNCHANGED <<usersCache, usersDisk>>
                 ELSE /\ usersCache' = created
                      /\ usersDisk' = IF diskOk THEN created ELSE usersDisk

\* what checkAndReserveQuota returns in the current state:
\* "admin", "platform_exempt", "rate_limited", "threw" (the write of a new account
\* failed), "reserved" (allowed) or "insufficient"
checkResult(userId, numImages, platform, diskOk) ==
  IF isAdmin(userId) THEN "admin"
  ELSE IF isPlatformExempt(platform) THEN "platform_exempt"
  ELSE IF ~checkRateLimit(rateLimitMap, userId, now).allowed THEN "rate_limited"
  ELSE IF userId \notin DOMAIN usersCache /\ ~diskOk THEN "threw"
  ELSE IF quotaAllows(accountOf(usersCache, userId, now), numImages, now) THEN "reserved"
  ELSE "insufficient"

checkAllowed(result) == result \in {"admin", "platform_exempt", "reserved"}

\* the object checkAndReserveQuota returns: allowed, the reservationId (the two sentinels
\* or a fresh token) and what its message states
checkReturn(userId, numImages, platform, diskOk) ==
  LET result == checkResult(userId, numImages, platform, diskOk)
  IN  [allowed |-> checkAllowed(result),
       reservationId |-> CASE result = "admin" -> "admin"
                           [] result = "platform_exempt" -> "platform_exempt"
                           [] result = "reserved" -> "token"
                           [] OTHER -> "none",
       message |-> CASE result = "rate_limited" ->
                          <<"wait", checkRateLimit(rateLimitMap, userId, now).wait>>
                     [] result = "insufficient" ->
                          quotaMessage(accountOf(usersCache, userId, now), numImages, now)
                     [] OTHER -> << >>]

\* consumeQuota(userId, userName, commandName, numImages, config)
consumeQuota(userId, numImages, diskOk) ==
  LET r == consumeQuotaOn(accountOf(usersCache, userId, now), numImages, now)
      cache == Put(usersCache, userId, r.userData)
  IN
  /\ usersCache' = cache
  /\ usersDisk' = IF diskOk THEN cache ELSE usersDisk
  /\ unitsPassed' = [unitsPassed EXCEPT ![userId] = @ + numImages]
  /\ uncovered' = [uncovered EXCEPT ![userId] = @ + (numImages - r.freeUsed - r.purchasedUsed)]
  /\ UNCHANGED <<rechargeHistory, rateLimitMap, now>>

\* recordUsageOnly(userId, userName, commandName, numImages)
recordUsageOnly(userId, numImages, diskOk) ==
  LET cache == Put(usersCache, userId,
                   recordUsageOnlyOn(accountOf(usersCache, userId, now), numImages, now))
  IN
  /\ usersCache' = cache
  /\ usersDisk' = IF diskOk THEN cache ELSE usersDisk
  /\ unitsPassed' = [unitsPassed EXCEPT ![userId] = @ + numImages]
  /\ UNCHANGED <<rechargeHistory, rateLimitMap, now, uncovered>>

\* recordUserUsage(session, commandName, numImages): the one caller of the two above
recordUserUsage(userId, platform, numImages, diskOk) ==
  IF isAdmin(userId) \/ isPlatformExempt(platform)
    THEN recordUsageOnly(userId, numImages, diskOk)
    ELSE consumeQuota(userId, numImages, diskOk)

usageRoom(userId, numImages) ==
  accountOf(usersCache, userId, now).totalUsageCount + numImages <= MaxUsage

-----------------------------------------------------------------------------
(* Recharge commands: updateUsersBatch with the command's mutator, then      *)
(* addRechargeRecord.                                                        *)

creditedBalance(balance, amount) == balance + amount

\* the mutator of the recharge command applied to one userId
creditOne(data, userId, amount, t) ==
  LET userData == accountOf(data, userId, t)
  IN  Put(data, userId,
          [userData EXCEPT !.purchasedCount = creditedBalance(@, amount),
                           !.remainingPurchasedCount = creditedBalance(@, amount)])

\* for (const userId of userIds) { ... }
RECURSIVE creditAll(_, _, _, _)
creditAll(data, userIds, amount, t) ==
  IF userIds = <<>> THEN data
  ELSE creditAll(creditOne(data, Head(userIds), amount, t), Tail(userIds), amount, t)

\* the targets list the mutator builds
RECURSIVE targetsOf(_, _, _, _)
targetsOf(data, userIds, amount, t) ==
  IF userIds = <<>> THEN <<>>
  ELSE LET before == accountOf(data, Head(userIds), t).remainingPurchasedCount
           after  == creditOne(data, Head(userIds), amount, t)
       IN  <<[userId |-> Head(userIds), amount |-> amount, beforeBalance |-> before,
              afterBalance |-> after[Head(userIds)].remainingPurchasedCount]>>
           \o targetsOf(after, Tail(userIds), amount, t)

\* addRechargeRecord: re-reads the file (an unreadable file counts as empty),
\* pushes the record and writes the file
addRechargeRecord(history, record, readOk) ==
  Append(IF readOk THEN history ELSE <<>>, record)

\* updateUsersBatch(updates) with the mutator of the recharge commands
updateUsersBatch(userIds, amount, diskOk) ==
  LET cache == creditAll(usersCache, userIds, amount, now)
  IN
  /\ usersCache' = cache
  /\ usersDisk' = IF diskOk THEN cache ELSE usersDisk
  /\ UNCHANGED <<rateLimitMap, now, unitsPassed, uncovered>>

\* the action of a recharge command for the list userIds: the batch update, then,
\* unless it threw or credited nobody, the history record
rechargeCommand(userIds, amount, rtype, diskOk, readOk, writeOk) ==
  LET targets == targetsOf(usersCache, userIds, amount, now)
      record == [type |-> rtype, targets |-> targets, totalAmount |-> amount * Len(targets)]
  IN
  /\ updateUsersBatch(userIds, amount, diskOk)
  /\ rechargeHistory' = IF diskOk /\ writeOk /\ targets # <<>>
                          THEN addRechargeRecord(rechargeHistory, record, readOk)
                          ELSE rechargeHistory

\* Object.keys(usersData) in insertion order; the order chosen here is arbitrary but fixed
RECURSIVE seqOfSet(_)
seqOfSet(S) == IF S = {} THEN <<>> ELSE LET x == CHOOSE y \in S : TRUE IN <<x>> \o seqOfSet(S \ {x})

UserLists == {<<u>> : u \in Users} \cup {<<u, v>> : u \in Users, v \in Users}

occurrences(userIds, userId) == Cardinality({i \in DOMAIN userIds : userIds[i] = userId})

creditRoom(userIds, amount) ==
  \A i \in DOMAIN userIds :
       accountOf(usersCache, userIds[i], now).purchasedCount
         + amount * occurrences(userIds, userIds[i]) <= MaxPurchased

\* a chargedAt field that was never written
NoTime == 0 - 1

\* no call has been recorded
NoCall == [op |-> "none", n |-> 0]

\* no video command and no query has been issued, no job exists
VideoIdle ==
  /\ activeVideoTasks = [u \in Users |-> 0]
  /\ pendingVideoCache = {}
  /\ chargedTasks = {}
  /\ chargedAt = [t \in VideoRequests |-> NoTime]
  /\ jobStatus = [t \in VideoRequests |-> "none"]
  /\ vpc = [r \in VideoRequests |-> "idle"]
  /\ vUser = [r \in VideoRequests |-> "alice"]
  /\ vOutcome = [r \in VideoRequests |-> "none"]
  /\ chargeCalls = [t \in VideoRequests |-> 0]
  /\ qpc = [q \in Queries |-> "idle"]
  /\ qUser = [q \in Queries |-> "alice"]
  /\ qTask = [q \in Queries |-> 0]
  /\ qStatus = [q \in Queries |-> "none"]
  /\ qPending = [q \in Queries |-> FALSE]
  /\ qRest = [q \in Queries |-> {}]

\* the three table locks of UserManager, named by their table
Locks == {"data", "history", "pending"}

\* tables kept in a cache that the first access loads under the table's lock
lazyTables == {"data", "pending"}

Callers == 1..NumCallers

\* Promise.resolve(), the initial value of AsyncLock.promise
settledPromise == 0

\* the locks as constructed, no table loaded, no operation invoked
LockIdle ==
  /\ promise = [l \in Locks |-> settledPromise]
  /\ resolved = {settledPromise}
  /\ loaded = [l \in Locks |-> FALSE]
  /\ tableLog = [l \in Locks |-> << >>]
  /\ cpc = [c \in Callers |-> "idle"]
  /\ cTable = [c \in Callers |-> "data"]
  /\ previousPromise = [c \in Callers |-> settledPromise]
  /\ cSnapshot = [c \in Callers |-> << >>]
  /\ cOutcome = [c \in Callers |-> "none"]
  /\ callOrder = [l \in Locks |-> << >>]
  /\ runOrder = [l \in Locks |-> << >>]

\* no image command has been issued, nobody was blocked
ImageIdle ==
  /\ activeTasks = [u \in Users |-> 0]
  /\ securityBlockMap = [u \in Users |-> << >>]
  /\ securityWarningMap = [u \in Users |-> FALSE]
  /\ ipc = [r \in ImageRequests |-> "idle"]
  /\ iUser = [r \in ImageRequests |-> "alice"]
  /\ iNum = [r \in ImageRequests |-> 1]
  /\ iStream = [r \in ImageRequests |-> TRUE]
  /\ isTimeout = [r \in ImageRequests |-> FALSE]
  /\ iOutcome = [r \in ImageRequests |-> "none"]
  /\ allImages = [r \in ImageRequests |-> 0]
  /\ sentImages = [r \in ImageRequests |-> 0]
  /\ creditDeducted = [r \in ImageRequests |-> FALSE]
  /\ usageCalls = [r \in ImageRequests |-> 0]
  /\ usageUnits = [r \in ImageRequests |-> 0]
  /\ penaltyCalls = [r \in ImageRequests |-> 0]

-----------------------------------------------------------------------------
(* SpecLedger: the ledger methods called in any order and with any arguments   *)
(* the command handlers pass.  Disk writes succeed here.                      *)

LCheck ==
  \E userId \in Users, numImages \in 1..MaxUnits, platform \in Platforms :
    /\ checkAndReserveQuota(userId, numImages, platform, TRUE)
    /\ UNCHANGED <<lockVars, lpc, lastCall, offLedger>>

LUsage ==
  \E userId \in Users, numImages \in 1..MaxUnits, platform \in Platforms :
    /\ usageRoom(userId, numImages)
    /\ recordUserUsage(userId, platform, numImages, TRUE)
    /\ UNCHANGED <<lockVars, lpc, lastCall, offLedger>>

LUpdateUsersBatch ==
  \E userIds \in UserLists, amount \in 1..MaxAmount :
    /\ creditRoom(userIds, amount)
    /\ updateUsersBatch(userIds, amount, TRUE)
    /\ UNCHANGED <<rechargeHistory, lockVars, lpc, lastCall, offLedger>>

LUpdateUsersBatchAll ==
  \E amount \in 1..MaxAmount :
    /\ creditRoom(seqOfSet(DOMAIN usersCache), amount)
    /\ updateUsersBatch(seqOfSet(DOMAIN usersCache), amount, TRUE)
    /\ UNCHANGED <<rechargeHistory, lockVars, lpc, lastCall, offLedger>>

Tick ==
  /\ now < MaxNow
  /\ now' = now + 1
  /\ UNCHANGED <<usersCache, usersDisk, rechargeHistory, rateLimitMap, unitsPassed, uncovered, lockVars, lpc, lastCall, offLedger>>

LedgerInit ==
  /\ usersCache = << >>
  /\ usersDisk = << >>
  /\ rechargeHistory = << >>
  /\ rateLimitMap = [u \in Users |-> << >>]
  /\ now = 0
  /\ unitsPassed = [u \in Users |-> 0]
  /\ uncovered = [u \in Users |-> 0]
  /\ lpc = [r \in Requests |-> "idle"]
  /\ LockIdle
  /\ lastCall = NoCall
  /\ VideoIdle
  /\ ImageIdle

LedgerNext == LCheck \/ LUsage \/ LUpdateUsersBatch \/ LUpdateUsersBatchAll \/ Tick

SpecLedger == LedgerInit /\ [][LedgerNext]_vars

-----------------------------------------------------------------------------
(* Video commands: the job gate, the pending job ledger, the submitting flow *)
(* and the manual queries.  A job's taskId is the number of the command that *)
(* created it.  Each action is the code between two awaits.                  *)

\* the users who issue video commands: the ordinary ones (an administrator's commands
\* differ only in how recordUserUsage books them)
VideoUsers == Users \ adminUsers

\* the users who issue image commands: the ordinary ones (an administrator's commands
\* differ in how recordUserUsage books them and in being exempt from the block tracker)
ImageUsers == Users \ adminUsers

\* the accounts of users who were recharged MaxPurchased units and have used nothing
PrepaidAccounts(users) ==
  [u \in users |-> [NewUserData(0) EXCEPT !.purchasedCount = MaxPurchased,
                                          !.remainingPurchasedCount = MaxPurchased]]

\* startVideoTask(userId) returns true
videoGateFree(userId) == activeVideoTasks[userId] = 0

\* endVideoTask(userId)
endVideoTask(userId) == [activeVideoTasks EXCEPT ![userId] = 0]

\* the user's records with charged = false, as addPendingVideoTaskWithLimit and
\* listPendingVideoTasksForUser filter them
unchargedTasks(userId) ==
  {t \in pendingVideoCache : vUser[t] = userId /\ t \notin chargedTasks}

\* variant: the limit is reached only when it is exceeded
limitReached_late(currentCount, max) == currentCount > max

limitReached(currentCount, max) == currentCount >= max


\* what addPendingVideoTaskWithLimit(task, max) returns: success, and on refusal the
\* message with the current count and the max
addResult(userId) ==
  LET currentCount == Cardinality(unchargedTasks(userId))
  IN  IF limitReached(currentCount, PendingMax)
        THEN [success |-> FALSE, message |-> <<"limit", currentCount, PendingMax>>]
        ELSE [success |-> TRUE, message |-> << >>]

\* addPendingVideoTaskWithLimit(task, max) returns success
addAdmits(userId) == addResult(userId).success

\* variant: the record is not written at submission
insertTask_deferred(taskId) == pendingVideoCache

\* addPendingVideoTaskWithLimit: this.pendingVideoCache.tasks[task.taskId] = task
insertTask(taskId) == pendingVideoCache \cup {taskId}

\* markPendingVideoTaskCharged(taskId): sets the flag of a record that is in the cache
markPendingVideoTaskCharged(taskId) ==
  IF taskId \in pendingVideoCache THEN chargedTasks \cup {taskId} ELSE chargedTasks

\* variant: every call writes chargedAt
markedAt_restamped(taskId) ==
  IF taskId \in pendingVideoCache THEN [chargedAt EXCEPT ![taskId] = now] ELSE chargedAt

\* markPendingVideoTaskCharged(taskId): chargedAt is written when the flag is set
markedAt(taskId) ==
  IF taskId \in pendingVideoCache /\ taskId \notin chargedTasks
    THEN [chargedAt EXCEPT ![taskId] = now] ELSE chargedAt

\* deletePendingVideoTask(taskId)
deletePendingVideoTask(taskId) == pendingVideoCache \ {taskId}

\* a video command ends: runVideoGenerationFlow's finally, or a manual release
vReturn(r, outcome) ==
  /\ vpc' = [vpc EXCEPT ![r] = "done"]
  /\ vOutcome' = [vOutcome EXCEPT ![r] = outcome]
  /\ activeVideoTasks' = endVideoTask(vUser[r])

\* commands are numbered in the order they are issued
issuedInOrder(pc, i) == IF i = 1 THEN TRUE ELSE pc[i - 1] # "idle"

queryVars == <<qpc, qUser, qTask, qStatus, qPending, qRest>>

\* what no step of a video command changes
offFlow == <<queryVars, imageVars>>

\* 图生视频 / video style command up to the gate: checkAndReserveQuota, startVideoTask
VCommand ==
  \E r \in VideoRequests, userId \in VideoUsers :
    /\ vpc[r] = "idle"
    /\ issuedInOrder(vpc, r)
    /\ checkAndReserveQuota(userId, videoCreditsMultiplier, "qq", TRUE)
    /\ vUser' = [vUser EXCEPT ![r] = userId]
    /\ IF ~checkAllowed(checkResult(userId, videoCreditsMultiplier, "qq", TRUE))
          THEN /\ vpc' = [vpc EXCEPT ![r] = "done"]
               /\ vOutcome' = [vOutcome EXCEPT ![r] = "quota"]
               /\ UNCHANGED activeVideoTasks
        ELSE IF ~videoGateFree(userId)
          THEN /\ vpc' = [vpc EXCEPT ![r] = "done"]
               /\ vOutcome' = [vOutcome EXCEPT ![r] = "busy"]
               /\ UNCHANGED activeVideoTasks
        ELSE /\ vpc' = [vpc EXCEPT ![r] = "input"]
             /\ activeVideoTasks' = [activeVideoTasks EXCEPT ![userId] = r]
             /\ UNCHANGED vOutcome
    /\ UNCHANGED <<lockVars, lpc, lastCall, pendingVideoCache, chargedTasks, chargedAt, jobStatus, chargeCalls, offFlow>>

\* getInputData, the description prompt and the option checks, outside any try:
\* a rejected input releases the gate by hand, an exception of session.send or
\* getInputData leaves the handler at once
VInput ==
  \E r \in VideoRequests, res \in {"ok", "invalid", "threw"} :
    /\ vpc[r] = "input"
    /\ CASE res = "ok" ->
              /\ vpc' = [vpc EXCEPT ![r] = "submit"]
              /\ UNCHANGED <<vOutcome, activeVideoTasks>>
         [] res = "invalid" -> vReturn(r, "invalid")
         [] res = "threw" ->
              /\ vpc' = [vpc EXCEPT ![r] = "done"]
              /\ vOutcome' = [vOutcome EXCEPT ![r] = "threw"]
              /\ UNCHANGED activeVideoTasks
    /\ UNCHANGED <<ledgerVars, pendingVideoCache, chargedTasks, chargedAt, jobStatus, vUser, chargeCalls, offFlow>>

\* runVideoGenerationFlow: createVideoTask
VSubmit ==
  \E r \in VideoRequests, created \in BOOLEAN :
    /\ vpc[r] = "submit"
    /\ IF created
          THEN /\ jobStatus' = [jobStatus EXCEPT ![r] = "processing"]
               /\ vpc' = [vpc EXCEPT ![r] = "add"]
               /\ UNCHANGED <<vOutcome, activeVideoTasks>>
          ELSE /\ vReturn(r, "submitFailed")
               /\ UNCHANGED jobStatus
    /\ UNCHANGED <<ledgerVars, pendingVideoCache, chargedTasks, chargedAt, vUser, chargeCalls, offFlow>>

\* runVideoGenerationFlow: addPendingVideoTaskWithLimit(task, 1)
VAdd ==
  \E r \in VideoRequests :
    /\ vpc[r] = "add"
    /\ IF addAdmits(vUser[r])
          THEN /\ pendingVideoCache' = insertTask(r)
               /\ vpc' = [vpc EXCEPT ![r] = "startMessage"]
               /\ UNCHANGED <<vOutcome, activeVideoTasks>>
          ELSE /\ pendingVideoCache' = deletePendingVideoTask(r)
               /\ vReturn(r, "queueFull")
    /\ UNCHANGED <<ledgerVars, chargedTasks, chargedAt, jobStatus, vUser, chargeCalls, offFlow>>

\* runVideoGenerationFlow: session.send(startMessage); when it throws the outer
\* catch deletes the record
VStartMessage ==
  \E r \in VideoRequests, sent \in BOOLEAN :
    /\ vpc[r] = "startMessage"
    /\ IF sent
          THEN /\ vpc' = [vpc EXCEPT ![r] = "poll1"]
               /\ UNCHANGED <<vOutcome, activeVideoTasks, pendingVideoCache>>
          ELSE /\ pendingVideoCache' = deletePendingVideoTask(r)
               /\ vReturn(r, "submitFailed")
    /\ UNCHANGED <<ledgerVars, chargedTasks, chargedAt, jobStatus, vUser, chargeCalls, offFlow>>

\* the poll 10 s after submission: queryTaskStatus and the delivery of the video
VFirstPollOf(r, answered, sent) ==
    /\ vpc[r] = "poll1"
    /\ IF answered /\ jobStatus[r] = "failed"
          THEN /\ pendingVideoCache' = deletePendingVideoTask(r)
               /\ vReturn(r, "failed")
        ELSE IF answered /\ jobStatus[r] = "completed" /\ sent
          THEN /\ vpc' = [vpc EXCEPT ![r] = "charge"]
               /\ UNCHANGED <<vOutcome, activeVideoTasks, pendingVideoCache>>
        ELSE /\ vpc' = [vpc EXCEPT ![r] = "poll2"]
             /\ UNCHANGED <<vOutcome, activeVideoTasks, pendingVideoCache>>
    /\ UNCHANGED <<ledgerVars, chargedTasks, chargedAt, jobStatus, vUser, chargeCalls, offFlow>>

VFirstPoll ==
  \E r \in VideoRequests, answered \in BOOLEAN, sent \in BOOLEAN :
    VFirstPollOf(r, answered, sent)

\* the poll after maxWaitTime
VSecondPollOf(r, answered, sent) ==
    /\ vpc[r] = "poll2"
    /\ IF answered /\ jobStatus[r] = "completed" /\ sent
          THEN /\ vpc' = [vpc EXCEPT ![r] = "charge"]
               /\ UNCHANGED <<vOutcome, activeVideoTasks, pendingVideoCache>>
        ELSE IF answered /\ jobStatus[r] = "failed"
          THEN /\ pendingVideoCache' = deletePendingVideoTask(r)
               /\ vReturn(r, "failed")
        ELSE /\ vReturn(r, "pending")
             /\ UNCHANGED pendingVideoCache
    /\ UNCHANGED <<ledgerVars, chargedTasks, chargedAt, jobStatus, vUser, chargeCalls, offFlow>>

VSecondPoll ==
  \E r \in VideoRequests, answered \in BOOLEAN, sent \in BOOLEAN :
    VSecondPollOf(r, answered, sent)

\* either poll, after the video was sent: recordUserUsage(session, commandName, videoCredits)
VCharge ==
  \E r \in VideoRequests :
    /\ vpc[r] = "charge"
    /\ recordUserUsage(vUser[r], "qq", videoCreditsMultiplier, TRUE)
    /\ chargeCalls' = [chargeCalls EXCEPT ![r] = @ + 1]
    /\ vpc' = [vpc EXCEPT ![r] = "mark"]
    /\ UNCHANGED <<lockVars, lpc, lastCall, activeVideoTasks, pendingVideoCache, chargedTasks, chargedAt, jobStatus, vUser, vOutcome, offFlow>>

VMark ==
  \E r \in VideoRequests :
    /\ vpc[r] = "mark"
    /\ chargedTasks' = markPendingVideoTaskCharged(r)
    /\ chargedAt' = markedAt(r)
    /\ vpc' = [vpc EXCEPT ![r] = "delete"]
    /\ UNCHANGED <<ledgerVars, activeVideoTasks, pendingVideoCache, jobStatus, vUser, vOutcome, chargeCalls, offFlow>>

VDelete ==
  \E r \in VideoRequests :
    /\ vpc[r] = "delete"
    /\ pendingVideoCache' = deletePendingVideoTask(r)
    /\ vReturn(r, "completed")
    /\ UNCHANGED <<ledgerVars, chargedTasks, chargedAt, jobStatus, vUser, chargeCalls, offFlow>>

\* the provider finishes a job
JobEnds ==
  \E t \in VideoRequests, status \in {"completed", "failed"} :
    /\ jobStatus[t] = "processing"
    /\ jobStatus' = [jobStatus EXCEPT ![t] = status]
    /\ UNCHANGED <<ledgerVars, activeVideoTasks, pendingVideoCache, chargedTasks, chargedAt, vpc, vUser,
                   vOutcome, chargeCalls, offFlow>>

flowVars == <<activeVideoTasks, vpc, vUser, vOutcome>>

\* what no step of a 查询视频 command changes
offQuery == <<flowVars, imageVars>>

\* variant: a failed job's record is kept
failedUncharged_kept(status, pending, charged) == FALSE

\* 查询视频: status.status === 'failed' with a record whose charged flag is not set
failedUncharged(status, pending, charged) == status = "failed" /\ pending /\ ~charged

\* variant: the owner of the record is not compared with the session's user
foreignTask_ignored(pending, owner, userId) == FALSE

\* 查询视频: pending && pending.userId && pending.userId !== session.userId
foreignTask(pending, owner, userId) == pending /\ owner # userId

\* a 查询视频 command returns: its locals are gone
qReturn(q) ==
  /\ qpc' = [qpc EXCEPT ![q] = "done"]
  /\ qTask' = [qTask EXCEPT ![q] = 0]
  /\ qStatus' = [qStatus EXCEPT ![q] = "none"]
  /\ qPending' = [qPending EXCEPT ![q] = FALSE]
  /\ qUser' = [qUser EXCEPT ![q] = "alice"]

\* 查询视频 <taskId>: the announcement and queryTaskStatus; an exception of either
\* ends the command in its catch
QueryStatus ==
  \E q \in Queries, userId \in Users, t \in VideoRequests, answered \in BOOLEAN :
    /\ qpc[q] = "idle"
    /\ issuedInOrder(qpc, q)
    /\ jobStatus[t] # "none"
    /\ IF answered
          THEN /\ qUser' = [qUser EXCEPT ![q] = userId]
               /\ qTask' = [qTask EXCEPT ![q] = t]
               /\ qStatus' = [qStatus EXCEPT ![q] = jobStatus[t]]
               /\ qpc' = [qpc EXCEPT ![q] = "get"]
               /\ UNCHANGED qPending
          ELSE qReturn(q)
    /\ UNCHANGED <<ledgerVars, offQuery, pendingVideoCache, chargedTasks, chargedAt, jobStatus,
                   chargeCalls, qRest>>

\* 查询视频 <taskId>: getPendingVideoTask, the ownership check and the branch on the
\* status; a failed job's uncharged record is deleted
QueryGetOf(q) ==
    LET t == qTask[q]
        pending == t \in pendingVideoCache
    IN
    /\ qpc[q] = "get"
    /\ IF foreignTask(pending, vUser[t], qUser[q])
          THEN /\ qReturn(q)
               /\ UNCHANGED pendingVideoCache
        ELSE IF qStatus[q] = "completed"
          THEN /\ qpc' = [qpc EXCEPT ![q] = "send"]
               /\ qPending' = [qPending EXCEPT ![q] = pending]
               /\ UNCHANGED <<qUser, qTask, qStatus, pendingVideoCache>>
        ELSE /\ qReturn(q)
             /\ pendingVideoCache' =
                  IF failedUncharged(qStatus[q], pending, t \in chargedTasks)
                    THEN deletePendingVideoTask(t) ELSE pendingVideoCache
    /\ UNCHANGED <<ledgerVars, offQuery, chargedTasks, chargedAt, jobStatus, chargeCalls, qRest>>

QueryGet == \E q \in Queries : QueryGetOf(q)

\* 查询视频 without taskId: listPendingVideoTasksForUser and the announcement
QueryList ==
  \E q \in Queries, userId \in Users, sent \in BOOLEAN :
    /\ qpc[q] = "idle"
    /\ issuedInOrder(qpc, q)
    /\ IF unchargedTasks(userId) # {} /\ sent
          THEN /\ qRest' = [qRest EXCEPT ![q] = unchargedTasks(userId)]
               /\ qUser' = [qUser EXCEPT ![q] = userId]
               /\ qpc' = [qpc EXCEPT ![q] = "next"]
          ELSE /\ qpc' = [qpc EXCEPT ![q] = "done"]
               /\ UNCHANGED <<qRest, qUser>>
    /\ UNCHANGED <<ledgerVars, offQuery, pendingVideoCache, chargedTasks, chargedAt, jobStatus,
                   chargeCalls, qTask, qStatus, qPending>>

\* the list query's loop: queryTaskStatus of the next task and the branch on it
\* (the 查询视频 <taskId> form has no further task)
QueryNextOf(q, t, answered) ==
    /\ qpc[q] = "next"
    /\ t \in qRest[q]
    /\ qRest' = [qRest EXCEPT ![q] = @ \ {t}]
    /\ IF answered /\ jobStatus[t] = "completed"
          THEN /\ qTask' = [qTask EXCEPT ![q] = t]
               /\ qPending' = [qPending EXCEPT ![q] = TRUE]
               /\ qStatus' = [qStatus EXCEPT ![q] = "completed"]
               /\ qpc' = [qpc EXCEPT ![q] = "send"]
          ELSE UNCHANGED <<qTask, qPending, qStatus, qpc>>
    /\ UNCHANGED qUser
    /\ pendingVideoCache' =
         IF answered /\ failedUncharged(jobStatus[t], TRUE, t \in chargedTasks)
           THEN deletePendingVideoTask(t) ELSE pendingVideoCache
    /\ UNCHANGED <<ledgerVars, offQuery, chargedTasks, chargedAt, jobStatus, chargeCalls>>

\* the list query's loop, and its end when no task is left
QueryNext ==
  \E q \in Queries, answered \in BOOLEAN :
    IF qRest[q] = {}
      THEN /\ qpc[q] = "next"
           /\ qReturn(q)
           /\ UNCHANGED <<qRest, pendingVideoCache>>
           /\ UNCHANGED <<ledgerVars, offQuery, chargedTasks, chargedAt, jobStatus, chargeCalls>>
      ELSE \E t \in qRest[q] : QueryNextOf(q, t, answered)

\* either query: session.send(h.video(...)), then the test of the record's charged flag
QuerySend ==
  \E q \in Queries, sent \in BOOLEAN :
    /\ qpc[q] = "send"
    /\ qpc' = [qpc EXCEPT ![q] =
                 IF sent /\ qPending[q] /\ qTask[q] \notin chargedTasks THEN "charge" ELSE "next"]
    /\ UNCHANGED <<ledgerVars, offQuery, pendingVideoCache, chargedTasks, chargedAt, jobStatus,
                   chargeCalls, qUser, qTask, qStatus, qPending, qRest>>

\* either query: recordUserUsage(session, pending.commandName, pending.credits)
QueryCharge ==
  \E q \in Queries :
    /\ qpc[q] = "charge"
    /\ recordUserUsage(qUser[q], "qq", videoCreditsMultiplier, TRUE)
    /\ chargeCalls' = [chargeCalls EXCEPT ![qTask[q]] = @ + 1]
    /\ qpc' = [qpc EXCEPT ![q] = "mark"]
    /\ UNCHANGED <<lockVars, lpc, lastCall, offQuery, pendingVideoCache, chargedTasks, chargedAt, jobStatus,
                   qUser, qTask, qStatus, qPending, qRest>>

QueryMark ==
  \E q \in Queries :
    /\ qpc[q] = "mark"
    /\ chargedTasks' = markPendingVideoTaskCharged(qTask[q])
    /\ chargedAt' = markedAt(qTask[q])
    /\ qpc' = [qpc EXCEPT ![q] = "delete"]
    /\ UNCHANGED <<ledgerVars, offQuery, pendingVideoCache, jobStatus, chargeCalls,
                   qUser, qTask, qStatus, qPending, qRest>>

QueryDelete ==
  \E q \in Queries :
    /\ qpc[q] = "delete"
    /\ pendingVideoCache' = deletePendingVideoTask(qTask[q])
    /\ qpc' = [qpc EXCEPT ![q] = "next"]
    /\ UNCHANGED <<ledgerVars, offQuery, chargedTasks, chargedAt, jobStatus, chargeCalls,
                   qUser, qTask, qStatus, qPending, qRest>>

VideoInit ==
  /\ usersCache = << >>
  /\ usersDisk = << >>
  /\ rechargeHistory = << >>
  /\ rateLimitMap = [u \in Users |-> << >>]
  /\ now = 0
  /\ unitsPassed = [u \in Users |-> 0]
  /\ uncovered = [u \in Users |-> 0]
  /\ lpc = [r \in Requests |-> "idle"]
  /\ LockIdle
  /\ lastCall = NoCall
  /\ VideoIdle
  /\ ImageIdle

VideoNext ==
  \/ VCommand \/ VInput \/ VSubmit \/ VAdd \/ VStartMessage \/ VFirstPoll \/ VSecondPoll
  \/ VCharge \/ VMark \/ VDelete \/ JobEnds
  \/ QueryStatus \/ QueryGet \/ QueryList \/ QueryNext \/ QuerySend
  \/ QueryCharge \/ QueryMark \/ QueryDelete

SpecVideo == VideoInit /\ [][VideoNext]_vars

-----------------------------------------------------------------------------
(* Image commands: the generation gate, processImageWithTimeout's race of    *)
(* processImage against the deadline timer, the provider's streaming of      *)
(* results into onImageGenerated, and the security block tracker.            *)

\* variant: startTask succeeds whether or not the user has a task
startTaskSucceeds_unguarded(userId) == TRUE

\* startTask(userId) returns true
startTaskSucceeds(userId) == activeTasks[userId] = 0

\* variant: endTask leaves the entry in place
endTask_kept(userId) == activeTasks

\* endTask(userId)
endTask(userId) == [activeTasks EXCEPT ![userId] = 0]

\* variant: every delivered image is charged
needsCharge_always(deducted) == TRUE

\* onImageGenerated's and processImage's test of the creditDeducted flag
needsCharge(deducted) == ~deducted

\* variant: processImage goes on to the final charge with no image returned
noImages_ignored(count) == FALSE

\* processImage's test images.length === 0 after the provider has returned
noImages(count) == count = 0

\* the units onImageGenerated charges after the first delivery: its parameter total,
\* which the provider sets to the requested number of images
streamedUnits(total, delivered) == total

\* variant: the warning is given whenever the threshold is reached
warnDue_unlatched(blockCount, hasWarning) == blockCount >= securityBlockWarningThreshold

\* blockCount >= config.securityBlockWarningThreshold && !hasWarning
warnDue(blockCount, hasWarning) ==
  blockCount >= securityBlockWarningThreshold /\ ~hasWarning

\* variant: the deduction starts at the threshold
deductDue_early(blockCount, shouldWarn) ==
  ~shouldWarn /\ blockCount >= securityBlockWarningThreshold

\* variant: the deduction is a second if, not the else of the warning
deductDue_alongside(blockCount, shouldWarn) == blockCount >= securityBlockWarningThreshold

\* else if (blockCount > config.securityBlockWarningThreshold)
deductDue(blockCount, shouldWarn) ==
  ~shouldWarn /\ blockCount > securityBlockWarningThreshold

\* variant: onImageGenerated does not test the flag
callbackProceeds_unchecked(stream, timedOut) == stream

\* a streaming provider calls onImageGenerated, which throws at once when
\* checkTimeout() is true
callbackProceeds(stream, timedOut) == stream /\ ~timedOut

\* UserManager.recordSecurityBlock(userId, config)
securityBlockOn(userId, t) ==
  LET kept == SelectSeq(securityBlockMap[userId], LAMBDA ts : ts > t - windowTicks(securityBlockWindow))
      blockTimestamps == Append(kept, t)
      blockCount == Len(blockTimestamps)
      hasWarning == securityWarningMap[userId]
      shouldWarn == warnDue(blockCount, hasWarning)
      shouldDeduct == deductDue(blockCount, shouldWarn)
  IN  IF isAdmin(userId)
        THEN [blocks |-> securityBlockMap, warnings |-> securityWarningMap,
              shouldWarn |-> FALSE, shouldDeduct |-> FALSE, blockCount |-> 0]
        ELSE [blocks |-> [securityBlockMap EXCEPT ![userId] = blockTimestamps],
              warnings |-> IF shouldWarn THEN [securityWarningMap EXCEPT ![userId] = TRUE]
                                         ELSE securityWarningMap,
              shouldWarn |-> shouldWarn, shouldDeduct |-> shouldDeduct,
              blockCount |-> blockCount]

\* Promise.race settles once: the first of processImage's result and the timer's
\* rejection is what the user gets
settled(r, outcome) == [iOutcome EXCEPT ![r] = IF @ = "none" THEN outcome ELSE @]

\* processImage is running (it holds the gate until its finally)
Running == {"input", "provider", "sending", "charging", "finalCharge", "complete"}

\* processImage ends, by return or by exception: its finally calls endTask
iFinish(r, outcome) ==
  /\ ipc' = [ipc EXCEPT ![r] = "done"]
  /\ activeTasks' = endTask(iUser[r])
  /\ iOutcome' = settled(r, outcome)

\* the locals of the commands that have returned are gone when a new command is issued
Forget(f, initial) == [x \in ImageRequests |-> IF ipc[x] = "done" THEN initial ELSE f[x]]

\* a style command: checkAndReserveQuota, then processImage's startTask
ICommand ==
  \E r \in ImageRequests, userId \in ImageUsers, numImages \in 1..MaxUnits, stream \in BOOLEAN :
    LET admitted == checkAllowed(checkResult(userId, numImages, "qq", TRUE))
        started == admitted /\ startTaskSucceeds(userId)
    IN
    /\ ipc[r] = "idle"
    /\ issuedInOrder(ipc, r)
    /\ checkAndReserveQuota(userId, numImages, "qq", TRUE)
    /\ ipc' = [ipc EXCEPT ![r] = IF started THEN "input" ELSE "done"]
    /\ iOutcome' = [Forget(iOutcome, "none") EXCEPT ![r] =
                      IF started THEN "none" ELSE IF admitted THEN "busy" ELSE "quota"]
    /\ activeTasks' = IF started THEN [activeTasks EXCEPT ![userId] = r] ELSE activeTasks
    /\ iUser' = [Forget(iUser, "alice") EXCEPT ![r] = userId]
    /\ iNum' = [Forget(iNum, 1) EXCEPT ![r] = IF started THEN numImages ELSE 1]
    /\ iStream' = [Forget(iStream, TRUE) EXCEPT ![r] = IF started THEN stream ELSE TRUE]
    /\ isTimeout' = Forget(isTimeout, FALSE)
    /\ allImages' = Forget(allImages, 0)
    /\ sentImages' = Forget(sentImages, 0)
    /\ creditDeducted' = Forget(creditDeducted, FALSE)
    /\ usageCalls' = Forget(usageCalls, 0)
    /\ usageUnits' = Forget(usageUnits, 0)
    /\ penaltyCalls' = Forget(penaltyCalls, 0)
    /\ UNCHANGED <<lockVars, lpc, lastCall, videoVars, securityBlockMap, securityWarningMap>>

\* processImage up to the provider call: the count check, getInputData, the
\* description prompt and the status message; then the timeout flag is tested
IInput ==
  \E r \in ImageRequests, res \in {"ok", "error", "threw"} :
    /\ ipc[r] = "input"
    /\ IF res = "error" THEN iFinish(r, "invalid")
        ELSE IF res = "threw" THEN iFinish(r, "failed")
        ELSE IF isTimeout[r] THEN iFinish(r, "timeout")
        ELSE /\ ipc' = [ipc EXCEPT ![r] = "provider"]
             /\ UNCHANGED <<activeTasks, iOutcome>>
    /\ UNCHANGED <<ledgerVars, videoVars, securityBlockMap, securityWarningMap, iUser,
                   iNum, iStream, isTimeout, allImages, sentImages, creditDeducted,
                   usageCalls, usageUnits, penaltyCalls>>

\* the provider produces one more image; a streaming provider calls
\* onImageGenerated, which throws when the flag is set (the provider swallows that)
IProvide ==
  \E r \in ImageRequests :
    /\ ipc[r] = "provider"
    /\ allImages[r] < iNum[r]
    /\ allImages' = [allImages EXCEPT ![r] = @ + 1]
    /\ ipc' = [ipc EXCEPT ![r] = IF callbackProceeds(iStream[r], isTimeout[r]) THEN "sending"
                                              ELSE "provider"]
    /\ UNCHANGED <<ledgerVars, videoVars, activeTasks, securityBlockMap,
                   securityWarningMap, iUser, iNum, iStream, isTimeout, iOutcome,
                   sentImages, creditDeducted, usageCalls, usageUnits, penaltyCalls>>

\* onImageGenerated: session.send(h.image(...)) and the test of creditDeducted;
\* a failed send is rethrown and swallowed by the provider
ISend ==
  \E r \in ImageRequests, sent \in BOOLEAN :
    /\ ipc[r] = "sending"
    /\ IF sent
          THEN /\ sentImages' = [sentImages EXCEPT ![r] = @ + 1]
               /\ IF needsCharge(creditDeducted[r])
                     THEN /\ creditDeducted' = [creditDeducted EXCEPT ![r] = TRUE]
                          /\ ipc' = [ipc EXCEPT ![r] = "charging"]
                     ELSE /\ ipc' = [ipc EXCEPT ![r] = "provider"]
                          /\ UNCHANGED creditDeducted
          ELSE /\ ipc' = [ipc EXCEPT ![r] = "provider"]
               /\ UNCHANGED <<sentImages, creditDeducted>>
    /\ UNCHANGED <<ledgerVars, videoVars, activeTasks, securityBlockMap,
                   securityWarningMap, iUser, iNum, iStream, isTimeout, iOutcome,
                   allImages, usageCalls, usageUnits, penaltyCalls>>

\* onImageGenerated: recordUserUsage(session, styleName, total, false)
ICharge ==
  \E r \in ImageRequests :
    /\ ipc[r] = "charging"
    /\ recordUserUsage(iUser[r], "qq", streamedUnits(iNum[r], sentImages[r]), TRUE)
    /\ usageCalls' = [usageCalls EXCEPT ![r] = @ + 1]
    /\ usageUnits' = [usageUnits EXCEPT ![r] = @ + streamedUnits(iNum[r], sentImages[r])]
    /\ ipc' = [ipc EXCEPT ![r] = "provider"]
    /\ UNCHANGED <<lockVars, lpc, lastCall, videoVars, activeTasks, securityBlockMap, securityWarningMap,
                   iUser, iNum, iStream, isTimeout, iOutcome, allImages, sentImages,
                   creditDeducted, penaltyCalls>>

\* generateImages throws, with or without images produced before: processImage's
\* finally runs, and unless the timer has settled the race its rejection reaches
\* processImageWithTimeout's catch
IProviderFails ==
  \E r \in ImageRequests, blocked \in BOOLEAN :
    /\ ipc[r] = "provider"
    /\ activeTasks' = endTask(iUser[r])
    /\ IF blocked /\ ~isTimeout[r]
          THEN /\ ipc' = [ipc EXCEPT ![r] = "blocked"]
               /\ UNCHANGED iOutcome
          ELSE /\ ipc' = [ipc EXCEPT ![r] = "done"]
               /\ iOutcome' = settled(r, "failed")
    /\ UNCHANGED <<ledgerVars, videoVars, securityBlockMap, securityWarningMap, iUser,
                   iNum, iStream, isTimeout, allImages, sentImages, creditDeducted,
                   usageCalls, usageUnits, penaltyCalls>>

\* generateImages returns what it has (all, a part after a failure, or nothing):
\* processImage tests the flag, the count and creditDeducted
IProviderReturns ==
  \E r \in ImageRequests :
    /\ ipc[r] = "provider"
    /\ IF isTimeout[r] THEN iFinish(r, "timeout")
        ELSE IF noImages(allImages[r]) THEN iFinish(r, "failed")
        ELSE /\ ipc' = [ipc EXCEPT ![r] =
                          IF needsCharge(creditDeducted[r]) THEN "finalCharge" ELSE "complete"]
             /\ UNCHANGED <<activeTasks, iOutcome>>
    /\ UNCHANGED <<ledgerVars, videoVars, securityBlockMap, securityWarningMap, iUser,
                   iNum, iStream, isTimeout, allImages, sentImages, creditDeducted,
                   usageCalls, usageUnits, penaltyCalls>>

\* processImage: recordUserUsage(session, styleName, images.length, false)
IFinalCharge ==
  \E r \in ImageRequests :
    /\ ipc[r] = "finalCharge"
    /\ recordUserUsage(iUser[r], "qq", allImages[r], TRUE)
    /\ usageCalls' = [usageCalls EXCEPT ![r] = @ + 1]
    /\ usageUnits' = [usageUnits EXCEPT ![r] = @ + allImages[r]]
    /\ ipc' = [ipc EXCEPT ![r] = "complete"]
    /\ UNCHANGED <<lockVars, lpc, lastCall, videoVars, activeTasks, securityBlockMap, securityWarningMap,
                   iUser, iNum, iStream, isTimeout, iOutcome, allImages, sentImages,
                   creditDeducted, penaltyCalls>>

\* processImage: the closing message, then the finally
IComplete ==
  \E r \in ImageRequests, sent \in BOOLEAN :
    /\ ipc[r] = "complete"
    /\ iFinish(r, IF sent THEN "completed" ELSE "failed")
    /\ UNCHANGED <<ledgerVars, videoVars, securityBlockMap, securityWarningMap, iUser,
                   iNum, iStream, isTimeout, allImages, sentImages, creditDeducted,
                   usageCalls, usageUnits, penaltyCalls>>

\* the deadline timer fires while processImage runs: it sets the flag and rejects,
\* and processImageWithTimeout's catch returns the timeout message
ITimeout ==
  \E r \in ImageRequests :
    /\ ipc[r] \in Running
    /\ ~isTimeout[r]
    /\ isTimeout' = [isTimeout EXCEPT ![r] = TRUE]
    /\ iOutcome' = settled(r, "timeout")
    /\ UNCHANGED <<ledgerVars, videoVars, activeTasks, securityBlockMap,
                   securityWarningMap, ipc, iUser, iNum, iStream, allImages, sentImages,
                   creditDeducted, usageCalls, usageUnits, penaltyCalls>>

\* processImageWithTimeout's catch on a security block: recordSecurityBlock, and the
\* deduction of the requested count once the user has been warned
IBlocked ==
  \E r \in ImageRequests :
    LET sb == securityBlockOn(iUser[r], now) IN
    /\ ipc[r] = "blocked"
    /\ securityBlockMap' = sb.blocks
    /\ securityWarningMap' = sb.warnings
    /\ IF sb.shouldDeduct
          THEN /\ recordUserUsage(iUser[r], "qq", iNum[r], TRUE)
               /\ penaltyCalls' = [penaltyCalls EXCEPT ![r] = @ + 1]
          ELSE UNCHANGED <<usersCache, usersDisk, rechargeHistory, rateLimitMap, now,
                           unitsPassed, uncovered, penaltyCalls>>
    /\ ipc' = [ipc EXCEPT ![r] = "done"]
    /\ iOutcome' = settled(r, "blocked")
    /\ UNCHANGED <<lockVars, lpc, lastCall, videoVars, activeTasks, iUser, iNum, iStream, isTimeout, allImages,
                   sentImages, creditDeducted, usageCalls, usageUnits>>

ImageInit ==
  /\ usersCache = PrepaidAccounts(ImageUsers)
  /\ usersDisk = PrepaidAccounts(ImageUsers)
  /\ rechargeHistory = << >>
  /\ rateLimitMap = [u \in Users |-> << >>]
  /\ now = 0
  /\ unitsPassed = [u \in Users |-> 0]
  /\ uncovered = [u \in Users |-> 0]
  /\ lpc = [r \in Requests |-> "idle"]
  /\ LockIdle
  /\ lastCall = NoCall
  /\ VideoIdle
  /\ ImageIdle

ImageNext ==
  \/ ICommand \/ IInput \/ IProvide \/ ISend \/ ICharge \/ IProviderFails
  \/ IProviderReturns \/ IFinalCharge \/ IComplete \/ ITimeout \/ IBlocked

SpecImage == ImageInit /\ [][ImageNext]_vars

(***************************************************************************)
(* Concurrent check + consume pairs of one ordinary user, one unit each.   *)
(* Every request calls checkAndReserveQuota and, when allowed, later calls *)
(* consumeQuota; other requests run in between (the accounts lock          *)
(* serialises the calls, nothing ties a check to its consume).             *)
(***************************************************************************)
BoundedUser == "alice"

\* accounts whose total available quota is BoundedQuota at time 0
BoundedAccounts ==
  { [totalUsageCount |-> dailyFreeLimit - f, dailyUsageCount |-> dailyFreeLimit - f,
     lastDailyReset |-> toDateString(0),
     purchasedCount |-> BoundedQuota - f, remainingPurchasedCount |-> BoundedQuota - f]
    : f \in 0..Min(BoundedQuota, dailyFreeLimit) }

BoundedInit ==
  /\ \E acc \in BoundedAccounts :
       /\ usersCache = Put(<< >>, BoundedUser, acc)
       /\ usersDisk = Put(<< >>, BoundedUser, acc)
       /\ unitsPassed = [u \in Users |-> IF u = BoundedUser THEN acc.totalUsageCount ELSE 0]
  /\ rechargeHistory = << >>
  /\ rateLimitMap = [u \in Users |-> << >>]
  /\ now = 0
  /\ uncovered = [u \in Users |-> 0]
  /\ lpc = [r \in Requests |-> "idle"]
  /\ LockIdle
  /\ lastCall = NoCall
  /\ VideoIdle
  /\ ImageIdle

BCheck ==
  \E r \in Requests :
    /\ lpc[r] = "idle"
    /\ checkAndReserveQuota(BoundedUser, 1, "qq", TRUE)
    /\ lpc' = [lpc EXCEPT ![r] =
                 IF checkAllowed(checkResult(BoundedUser, 1, "qq", TRUE))
                   THEN "allowed" ELSE "denied"]
    /\ UNCHANGED <<lockVars, lastCall, offLedger>>

BConsume ==
  \E r \in Requests :
    /\ lpc[r] = "allowed"
    /\ consumeQuota(BoundedUser, 1, TRUE)
    /\ lpc' = [lpc EXCEPT ![r] = "done"]
    /\ UNCHANGED <<lockVars, lastCall, offLedger>>

\* time passes within the day of the requests
BTick ==
  /\ toDateString(now + 1) = toDateString(0)
  /\ Tick

BoundedNext == BCheck \/ BConsume \/ BTick

SpecBounded == BoundedInit /\ [][BoundedNext]_vars

(***************************************************************************)
(* SpecCalls: single calls of the quota methods on accounts and rate       *)
(* windows drawn from the ones the program can hold, each call recorded     *)
(* with its arguments, the tables before it and the value it returned.      *)
(***************************************************************************)
\* accounts of a user after some usage and a recharge on day 0
SampleAccounts ==
  { [totalUsageCount |-> d, dailyUsageCount |-> d, lastDailyReset |-> toDateString(0),
     purchasedCount |-> p, remainingPurchasedCount |-> p]
    : d \in 0..dailyFreeLimit, p \in 0..MaxPurchased }

\* rate windows at time 0: empty, or filled by rateLimitMax admitted checks
SampleWindows == { << >>, [i \in 1..rateLimitMax |-> 0] }

\* the record of a call
callOf(op, userId, numImages, platform, ret) ==
  [op |-> op, userId |-> userId, numImages |-> numImages, platform |-> platform,
   at |-> now, cache |-> usersCache, disk |-> usersDisk, rate |-> rateLimitMap,
   ret |-> ret, n |-> lastCall.n + 1]

CallsInit ==
  /\ \E acc \in SampleAccounts, known \in BOOLEAN :
       /\ usersCache = IF known THEN Put(<< >>, "alice", acc) ELSE << >>
       /\ usersDisk = usersCache
       /\ unitsPassed = [u \in Users |-> IF known /\ u = "alice" THEN acc.totalUsageCount ELSE 0]
  /\ \E w \in SampleWindows : rateLimitMap = [u \in Users |-> IF u = "alice" THEN w ELSE << >>]
  /\ rechargeHistory = << >>
  /\ now = 0
  /\ uncovered = [u \in Users |-> 0]
  /\ lpc = [r \in Requests |-> "idle"]
  /\ LockIdle
  /\ lastCall = NoCall
  /\ VideoIdle
  /\ ImageIdle

CCheck ==
  \E userId \in Users, numImages \in 1..MaxUnits, platform \in Platforms :
    /\ lastCall.n < MaxCalls
    /\ checkAndReserveQuota(userId, numImages, platform, TRUE)
    /\ lastCall' = callOf("checkAndReserveQuota", userId, numImages, platform,
                          checkReturn(userId, numImages, platform, TRUE))
    /\ UNCHANGED <<lockVars, lpc, offLedger>>

\* recordUserUsage: consumeQuota or recordUsageOnly, and what it returns
CUsage ==
  \E userId \in Users, numImages \in 1..MaxUnits, platform \in Platforms :
    LET account == accountOf(usersCache, userId, now) IN
    /\ lastCall.n < MaxCalls
    /\ recordUserUsage(userId, platform, numImages, TRUE)
    /\ lastCall' =
         IF isAdmin(userId) \/ isPlatformExempt(platform)
           THEN callOf("recordUsageOnly", userId, numImages, platform,
                       [userData |-> recordUsageOnlyOn(account, numImages, now)])
           ELSE callOf("consumeQuota", userId, numImages, platform,
                       consumeQuotaOn(account, numImages, now))
    /\ UNCHANGED <<lockVars, lpc, offLedger>>

CallsNext == CCheck \/ CUsage \/ Tick

SpecCalls == CallsInit /\ [][CallsNext]_vars

-----------------------------------------------------------------------------
(* The pending-job table by itself: addPendingVideoTaskWithLimit,            *)
(* markPendingVideoTaskCharged and deletePendingVideoTask called for any     *)
(* task in any order, as racing reconciliation paths call them.              *)

\* history: the call, the time and the table before it
tableCallOf(op, taskId) ==
  [op |-> op, taskId |-> taskId, at |-> now, pending |-> pendingVideoCache,
   charged |-> chargedTasks, stamps |-> chargedAt, n |-> 0]

\* what no call of the table changes
offTable == <<usersCache, usersDisk, rechargeHistory, rateLimitMap, now, unitsPassed,
              uncovered, lockVars, lpc, activeVideoTasks, vpc, vOutcome, chargeCalls, queryVars,
              imageVars>>

\* addPendingVideoTaskWithLimit(task, 1) for a job the provider has just created
PAdd ==
  \E t \in VideoRequests, userId \in VideoUsers :
    /\ jobStatus[t] = "none"
    /\ jobStatus' = [jobStatus EXCEPT ![t] = "processing"]
    /\ vUser' = [vUser EXCEPT ![t] = userId]
    /\ pendingVideoCache' =
         IF addAdmits(userId) THEN insertTask(t) ELSE pendingVideoCache
    /\ lastCall' = tableCallOf("addPendingVideoTaskWithLimit", t)
    /\ UNCHANGED <<chargedTasks, chargedAt, offTable>>

PMark ==
  \E t \in VideoRequests :
    /\ chargedTasks' = markPendingVideoTaskCharged(t)
    /\ chargedAt' = markedAt(t)
    /\ lastCall' = tableCallOf("markPendingVideoTaskCharged", t)
    /\ UNCHANGED <<pendingVideoCache, jobStatus, vUser, offTable>>

PDelete ==
  \E t \in VideoRequests :
    /\ pendingVideoCache' = deletePendingVideoTask(t)
    /\ lastCall' = tableCallOf("deletePendingVideoTask", t)
    /\ UNCHANGED <<chargedTasks, chargedAt, jobStatus, vUser, offTable>>

PendingInit == VideoInit

PendingNext == PAdd \/ PMark \/ PDelete \/ Tick

SpecPending == PendingInit /\ [][PendingNext]_vars

-----------------------------------------------------------------------------
(* The rate limiter: a run of admission checks of checkAndReserveQuota while *)
(* the clock advances.                                                       *)

\* the number of checks the rate limiter denied the user just before this one
streakOf(userId) ==
  IF lastCall.op = "checkAndReserveQuota" /\ lastCall.userId = userId
       /\ lastCall.ret.message # << >> /\ lastCall.ret.message[1] = "wait"
    THEN lastCall.streak + 1 ELSE 0

RateInit == CallsInit

RCheck ==
  \E userId \in Users, platform \in Platforms :
    /\ lastCall.n < MaxRateCalls
    /\ checkAndReserveQuota(userId, 1, platform, TRUE)
    /\ lastCall' = [streak |-> streakOf(userId)] @@
                     callOf("checkAndReserveQuota", userId, 1, platform,
                            checkReturn(userId, 1, platform, TRUE))
    /\ UNCHANGED <<lockVars, lpc, offLedger>>

RateNext == RCheck \/ Tick

SpecRate == RateInit /\ [][RateNext]_vars

-----------------------------------------------------------------------------
(* The security block tracker: content-policy rejections of image requests,  *)
(* handled by recordSecurityBlock, while the clock advances.                 *)

\* history of the rejections so far: per user their number, the number of warnings
\* returned and the time of the first one
blockHistory ==
  IF lastCall.op = "recordSecurityBlock"
    THEN lastCall
    ELSE [count |-> [u \in Users |-> 0], warns |-> [u \in Users |-> 0],
          first |-> [u \in Users |-> NoTime]]

SecurityInit == LedgerInit

\* recordSecurityBlock(session, numImages) of the entry file: the tracker's verdict,
\* then the warning, or the deduction through recordUserUsage
SBlock ==
  \E userId \in Users, numImages \in 1..MaxUnits :
    LET sb == securityBlockOn(userId, now)
        h == blockHistory
    IN
    /\ lastCall.n < MaxBlocks
    /\ securityBlockMap' = sb.blocks
    /\ securityWarningMap' = sb.warnings
    /\ IF sb.shouldDeduct
          THEN recordUserUsage(userId, "qq", numImages, TRUE)
          ELSE UNCHANGED <<usersCache, usersDisk, rechargeHistory, rateLimitMap, now,
                           unitsPassed, uncovered>>
    /\ lastCall' =
         [op |-> "recordSecurityBlock", userId |-> userId, numImages |-> numImages,
          at |-> now, blocks |-> securityBlockMap, warned |-> securityWarningMap,
          passed |-> unitsPassed,
          ret |-> [shouldWarn |-> sb.shouldWarn, shouldDeduct |-> sb.shouldDeduct,
                   blockCount |-> sb.blockCount],
          count |-> [h.count EXCEPT ![userId] = @ + 1],
          warns |-> [h.warns EXCEPT ![userId] = @ + (IF sb.shouldWarn THEN 1 ELSE 0)],
          first |-> [h.first EXCEPT ![userId] = IF @ = NoTime THEN now ELSE @],
          n |-> lastCall.n + 1]
    /\ UNCHANGED <<lockVars, lpc, videoVars, activeTasks, ipc, iUser, iNum, iStream, isTimeout,
                   iOutcome, allImages, sentImages, creditDeducted, usageCalls,
                   usageUnits, penaltyCalls>>

SecurityNext == SBlock \/ Tick

SpecSecurity == SecurityInit /\ [][SecurityNext]_vars

-----------------------------------------------------------------------------
(* Recharge commands whose writes of users_data.json and of the history      *)
(* file, and whose read of the history file, may fail.                       *)

RechargeInit == LedgerInit

\* the recharge command for a list of users: updateUsersBatch, then addRechargeRecord
RRecharge ==
  \E userIds \in UserLists, amount \in 1..MaxAmount,
     diskOk \in BOOLEAN, readOk \in BOOLEAN, writeOk \in BOOLEAN :
    /\ creditRoom(userIds, amount)
    /\ rechargeCommand(userIds, amount, IF Len(userIds) > 1 THEN "batch" ELSE "single",
                       diskOk, readOk, writeOk)
    /\ lastCall' = [op |-> "recharge", userIds |-> userIds, amount |-> amount,
                    diskOk |-> diskOk, readOk |-> readOk, writeOk |-> writeOk,
                    cache |-> usersCache, disk |-> usersDisk,
                    history |-> rechargeHistory, n |-> 0]
    /\ UNCHANGED <<lockVars, lpc, offLedger>>

RechargeNext == RRecharge \/ Tick

SpecRecharge == RechargeInit /\ [][RechargeNext]_vars

-----------------------------------------------------------------------------
(* The account-table mutations when saveUsersDataInternal may throw: account *)
(* creation in getUserData (reached through checkAndReserveQuota),           *)
(* consumeQuota, recordUsageOnly and updateUsersBatch, each recorded with    *)
(* whether its write threw.                                                  *)

WCheck ==
  \E userId \in Users, platform \in Platforms, diskOk \in BOOLEAN :
    /\ lastCall.n < MaxCalls
    /\ checkAndReserveQuota(userId, 1, platform, diskOk)
    /\ lastCall' = [op |-> "checkAndReserveQuota", userId |-> userId,
                    threw |-> checkResult(userId, 1, platform, diskOk) = "threw",
                    cache |-> usersCache, n |-> lastCall.n + 1]
    /\ UNCHANGED <<lockVars, lpc, offLedger>>

WUsage ==
  \E userId \in Users, numImages \in 1..MaxUnits, platform \in Platforms, diskOk \in BOOLEAN :
    /\ lastCall.n < MaxCalls
    /\ recordUserUsage(userId, platform, numImages, diskOk)
    /\ lastCall' = [op |-> IF isAdmin(userId) \/ isPlatformExempt(platform)
                             THEN "recordUsageOnly" ELSE "consumeQuota",
                    userId |-> userId, threw |-> ~diskOk,
                    cache |-> usersCache, n |-> lastCall.n + 1]
    /\ UNCHANGED <<lockVars, lpc, offLedger>>

WBatch ==
  \E userId \in Users, diskOk \in BOOLEAN :
    /\ lastCall.n < MaxCalls
    /\ creditRoom(<<userId>>, 1)
    /\ updateUsersBatch(<<userId>>, 1, diskOk)
    /\ lastCall' = [op |-> "updateUsersBatch", userId |-> userId, threw |-> ~diskOk,
                    cache |-> usersCache, n |-> lastCall.n + 1]
    /\ UNCHANGED <<rechargeHistory, lockVars, lpc, offLedger>>

WritesNext == WCheck \/ WUsage \/ WBatch \/ Tick

SpecWrites == CallsInit /\ [][WritesNext]_vars

-----------------------------------------------------------------------------
(* The table locks.  Callers invoke ledger operations on the three tables;   *)
(* an operation on a cached table first awaits the lazy load (which takes    *)
(* the table's lock itself when the cache is not set), then calls acquire    *)
(* with its body.  A body reads the table, is suspended at its file          *)
(* operations, and writes the table with its own mutation added; the write   *)
(* may throw.  Promises are numbered: caller c's load call creates promise   *)
(* 2c - 1, its operation's call creates promise 2c.                          *)

offLock == <<usersCache, usersDisk, rechargeHistory, rateLimitMap, now, unitsPassed,
             uncovered, lpc, lastCall, videoVars, imageVars>>

\* the nextPromise an acquire call creates
loadPromise(c) == 2 * c - 1
nextPromise(c) == 2 * c
nestedPromise(c) == 2 * NumCallers + c

\* acquire up to its await: previousPromise = this.promise; this.promise = nextPromise
acquire(c, l, next) ==
  /\ previousPromise' = [previousPromise EXCEPT ![c] = promise[l]]
  /\ promise' = [promise EXCEPT ![l] = next]
  /\ callOrder' = [callOrder EXCEPT ![l] = Append(@, next)]

\* await previousPromise has returned
entered_unawaited(c) == TRUE
entered(c) == previousPromise[c] \in resolved

\* try { return await fn() } finally { release() }
released_onReturn(next, threw) == IF threw THEN resolved ELSE resolved \cup {next}
released(next, threw) == resolved \cup {next}

\* the locks the body of an operation on a table acquires while it runs: the
\* bodies use the cache directly and call neither the loaders nor each other
bodyAcquires_loader(l) == {l}
bodyAcquires(l) == {}

inBody(c) == cpc[c] \in {"loadRead", "body"}

\* an operation is called; loadUsersData / loadPendingVideoTasks return the cache
\* or call acquire with the loading body
Invoke ==
  \E c \in Callers, l \in Locks :
    /\ cpc[c] = "idle"
    /\ IF c = 1 THEN TRUE ELSE cpc[c - 1] # "idle"
    /\ cTable' = [cTable EXCEPT ![c] = l]
    /\ IF l \in lazyTables /\ ~loaded[l]
         THEN /\ acquire(c, l, loadPromise(c))
              /\ cpc' = [cpc EXCEPT ![c] = "loadWait"]
         ELSE /\ cpc' = [cpc EXCEPT ![c] = "ready"]
              /\ UNCHANGED <<previousPromise, promise, callOrder>>
    /\ UNCHANGED <<resolved, loaded, tableLog, cSnapshot, cOutcome, runOrder, offLock>>

\* the loading body starts: the second test of the cache, then the read of the file
LoadEnter ==
  \E c \in Callers :
    /\ cpc[c] = "loadWait"
    /\ entered(c)
    /\ runOrder' = [runOrder EXCEPT ![cTable[c]] = Append(@, loadPromise(c))]
    /\ IF loaded[cTable[c]]
         THEN /\ cpc' = [cpc EXCEPT ![c] = "ready"]
              /\ resolved' = released(loadPromise(c), FALSE)
         ELSE /\ cpc' = [cpc EXCEPT ![c] = "loadRead"]
              /\ UNCHANGED resolved
    /\ UNCHANGED <<promise, loaded, tableLog, cTable, previousPromise, cSnapshot, cOutcome,
                   callOrder, offLock>>

\* the read returns or fails: every path sets the cache and returns it
LoadDone ==
  \E c \in Callers :
    /\ cpc[c] = "loadRead"
    /\ loaded' = [loaded EXCEPT ![cTable[c]] = TRUE]
    /\ resolved' = released(loadPromise(c), FALSE)
    /\ cpc' = [cpc EXCEPT ![c] = "ready"]
    /\ UNCHANGED <<promise, tableLog, cTable, previousPromise, cSnapshot, cOutcome,
                   callOrder, runOrder, offLock>>

\* the operation calls acquire with its body
Acquire ==
  \E c \in Callers :
    /\ cpc[c] = "ready"
    /\ acquire(c, cTable[c], nextPromise(c))
    /\ cpc' = [cpc EXCEPT ![c] = "wait"]
    /\ UNCHANGED <<resolved, loaded, tableLog, cTable, cSnapshot, cOutcome, runOrder, offLock>>

\* the body starts and reads the table, up to its first file operation.  A body
\* that called acquire on its own lock would await a promise that is resolved
\* only after this body has returned, and never continue.
Enter ==
  \E c \in Callers :
    /\ cpc[c] = "wait"
    /\ entered(c)
    /\ runOrder' = [runOrder EXCEPT ![cTable[c]] = Append(@, nextPromise(c))]
    /\ cSnapshot' = [cSnapshot EXCEPT ![c] = tableLog[cTable[c]]]
    /\ IF bodyAcquires(cTable[c]) = {}
         THEN /\ cpc' = [cpc EXCEPT ![c] = "body"]
              /\ UNCHANGED <<previousPromise, promise, callOrder>>
         ELSE /\ cpc' = [cpc EXCEPT ![c] = "nested"]
              /\ acquire(c, cTable[c], nestedPromise(c))
    /\ UNCHANGED <<resolved, loaded, tableLog, cTable, cOutcome, offLock>>

\* the write returns or throws; the body's promise settles and finally releases
Settle ==
  \E c \in Callers, threw \in BOOLEAN :
    /\ cpc[c] = "body"
    /\ tableLog' = [tableLog EXCEPT ![cTable[c]] =
                      IF threw THEN @ ELSE Append(cSnapshot[c], c)]
    /\ cOutcome' = [cOutcome EXCEPT ![c] = IF threw THEN "error" ELSE "ok"]
    /\ resolved' = released(nextPromise(c), threw)
    /\ cpc' = [cpc EXCEPT ![c] = "done"]
    /\ UNCHANGED <<promise, loaded, cTable, previousPromise, cSnapshot, callOrder, runOrder,
                   offLock>>

LockInit == LedgerInit

LockRun == LoadEnter \/ LoadDone \/ Acquire \/ Enter \/ Settle

LockNext == Invoke \/ LockRun

SpecLock == LockInit /\ [][LockNext]_vars

\* the event loop runs every continuation that is ready, and every file
\* operation returns or throws
FairLock == SpecLock /\ WF_vars(LockRun)

-----------------------------------------------------------------------------
(* Properties *)

\* C1: for every video job, however the submitting flow's polls and the manual
\* queries overlap or follow one another, recordUserUsage (consumeQuota) is called at
\* most once, and once every command has returned a job whose video was charged has
\* been charged exactly once and has no record left.
C1_ChargedOncePerJob ==
  \A t \in VideoRequests :
    /\ chargeCalls[t] <= 1
    /\ chargeCalls[t] > 0 /\ (\A r \in VideoRequests : vpc[r] \in {"idle", "done"})
         /\ (\A q \in Queries : qpc[q] \in {"idle", "done"})
         => chargeCalls[t] = 1 /\ t \notin pendingVideoCache

allowedRequests == {r \in Requests : lpc[r] \in {"allowed", "done"}}

\* C2: with BoundedQuota units available and more check + consume pairs than that,
\* no more than BoundedQuota requests are ever allowed, exactly BoundedQuota have
\* been served once every request is settled, and the balances lose at most
\* BoundedQuota units.
C2_ExactlyQuotaAllowed ==
  /\ Cardinality(allowedRequests) <= BoundedQuota
  /\ (\A r \in Requests : lpc[r] \in {"denied", "done"})
        => Cardinality(allowedRequests) = BoundedQuota
  /\ totalAvailable(usersCache[BoundedUser], now) >= 0


\* C3: in every reachable state of the ledger no account has a negative
\* remainingPurchasedCount, whatever checks, usages, usage records and recharges ran.
C3_PurchasedNeverNegative ==
  \A u \in DOMAIN usersCache : usersCache[u].remainingPurchasedCount >= 0

\* a consumeQuota asked for more than the balances held and emptied a purchased balance
C3_Witness ==
  /\ "alice" \in DOMAIN usersCache
  /\ usersCache["alice"].purchasedCount > 0
  /\ usersCache["alice"].remainingPurchasedCount = 0
  /\ uncovered["alice"] > 0

\* C4: totalUsageCount of every account is the sum of the units handed to the
\* consumeQuota and recordUsageOnly calls made for it (an absent account has had none);
\* checks, recharges and the passing of time do not change it.
C4_TotalIsSumOfUnits ==
  \A u \in Users :
    unitsPassed[u] = IF u \in DOMAIN usersCache THEN usersCache[u].totalUsageCount ELSE 0

\* units were counted although no balance covered them, and a day change and a
\* recharge have happened in between
C4_Witness ==
  /\ "alice" \in DOMAIN usersCache
  /\ uncovered["alice"] > 0
  /\ unitsPassed["alice"] > 1
  /\ usersCache["alice"].purchasedCount > 0
  /\ "bob" \in DOMAIN usersCache
  /\ unitsPassed["bob"] > 0

\* C5: in every reachable state every user has at most PendingMax pending records
\* with charged = false.
C5_UnchargedWithinMax ==
  \A u \in Users : Cardinality(unchargedTasks(u)) <= PendingMax

\* a user with an uncharged record submitted again and was turned away by the limit
C5_Witness ==
  \E r1, r2 \in VideoRequests :
    /\ r1 # r2
    /\ vUser[r1] = vUser[r2]
    /\ r1 \in unchargedTasks(vUser[r1])
    /\ vOutcome[r2] = "queueFull"

\* the image commands of a user whose processImage is running
runningOf(u) == {r \in ImageRequests : iUser[r] = u /\ ipc[r] \in Running}

\* C6: the generation gate is a single slot per user: at most one image command of a
\* user is between its successful startTask and its endTask, the slot is taken exactly
\* while one is, and a command that found the slot taken was turned away without
\* taking or changing it.
C6_OneGenerationPerUser ==
  \A u \in Users :
    /\ Cardinality(runningOf(u)) <= 1
    /\ \A r \in runningOf(u) : activeTasks[u] = r
    /\ runningOf(u) = {} => activeTasks[u] = 0

\* a command was turned away while another command of the same user held the slot
C6_Witness ==
  \E r1, r2 \in ImageRequests :
    /\ iUser[r1] = iUser[r2]
    /\ ipc[r1] = "done" /\ iOutcome[r1] = "busy"
    /\ ipc[r2] \in Running

\* C7: a video command that has returned no longer holds its user's job gate.
C7_GateReleasedOnExit ==
  \A r \in VideoRequests : vpc[r] = "done" => activeVideoTasks[vUser[r]] # r

C9_ExactlyOneCall ==
  \A r \in ImageRequests :
    ipc[r] = "done" /\ sentImages[r] > 0 => usageCalls[r] + penaltyCalls[r] = 1

\* C9 amended: processImage charges usage at most once per command: with the first
\* delivered result, not again with later ones, and at the end only if nothing was
\* charged before; a command that ends without a delivered or returned result is not
\* charged, and the deduction for a security block is a call of its own.
C9_OneUsageCharge ==
  \A r \in ImageRequests :
    /\ usageCalls[r] <= 1
    /\ penaltyCalls[r] <= 1
    /\ usageCalls[r] = 1 => allImages[r] > 0
    /\ sentImages[r] > 0 /\ ipc[r] # "charging" => creditDeducted[r] /\ usageCalls[r] = 1
    /\ ipc[r] = "done" /\ iOutcome[r] = "completed" => usageCalls[r] = 1

\* a command delivered two results and was charged once
C9_Witness ==
  \E r \in ImageRequests :
    /\ ipc[r] = "done"
    /\ sentImages[r] > 1
    /\ usageCalls[r] = 1

\* C10: a command that delivered k results, 0 < k < the requested count, before the
\* generation failed or stopped has been charged k units.
C10_ChargedForDelivered ==
  \A r \in ImageRequests :
    ipc[r] = "done" /\ allImages[r] < iNum[r] /\ sentImages[r] = allImages[r]
      /\ sentImages[r] > 0
      => usageUnits[r] = sentImages[r]

awaitingConsume(r) ==
  /\ vpc[r] \in {"input", "submit", "add", "startMessage", "poll1", "poll2", "charge"}
  /\ chargeCalls[r] = 0

\* C12: while a video command of a user is between its allowed check and its own
\* consumeQuota, no step makes a recordUserUsage (consumeQuota) call for another job of
\* the same user.
C12_NoOtherConsumeBetween ==
  [][\A r \in VideoRequests :
       awaitingConsume(r) =>
         \A t \in VideoRequests \ {r} :
           vUser[t] = vUser[r] => chargeCalls'[t] = chargeCalls[t]]_vars

\* the account of the recorded call's user before the call (all counts 0 when it had none)
calledAccount ==
  IF lastCall.userId \in DOMAIN lastCall.cache
    THEN lastCall.cache[lastCall.userId]
    ELSE [totalUsageCount |-> 0, dailyUsageCount |-> 0,
          lastDailyReset |-> toDateString(lastCall.at),
          purchasedCount |-> 0, remainingPurchasedCount |-> 0]

\* the recorded call was made for an ordinary user on an ordinary platform
calledOrdinary ==
  lastCall.userId \notin adminUsers /\ lastCall.platform \notin unlimitedPlatforms

\* the rate limiter admitted the recorded call: fewer than rateLimitMax timestamps of
\* the user were inside the window
calledAdmitted ==
  Cardinality({i \in DOMAIN lastCall.rate[lastCall.userId] :
                 lastCall.rate[lastCall.userId][i] >
                   lastCall.at - rateLimitWindow * TicksPerSecond})
    < rateLimitMax

\* C13: for an ordinary user the rate limiter admitted, checkAndReserveQuota(units)
\* allows iff max(0, dailyFreeLimit - effectiveDaily) + remainingPurchasedCount >= units,
\* effectiveDaily being dailyUsageCount when lastDailyReset is today and 0 otherwise,
\* and a denial states the remaining free, the purchased and the total count.
C13_AllowedIffEnough ==
  lastCall.op = "checkAndReserveQuota" /\ calledOrdinary /\ calledAdmitted =>
    LET acc == calledAccount
        effective == IF acc.lastDailyReset = toDateString(lastCall.at)
                       THEN acc.dailyUsageCount ELSE 0
        free == IF dailyFreeLimit - effective > 0 THEN dailyFreeLimit - effective ELSE 0
        total == free + acc.remainingPurchasedCount
    IN  /\ lastCall.ret.allowed <=> total >= lastCall.numImages
        /\ lastCall.ret.allowed => lastCall.ret.reservationId = "token"
        /\ ~lastCall.ret.allowed =>
             lastCall.ret.message =
               <<"quota", lastCall.numImages, free, acc.remainingPurchasedCount, total>>

\* a check for more units than the free allowance and an empty purchased balance held
\* was denied with the three counts
C13_Witness ==
  /\ lastCall.op = "checkAndReserveQuota"
  /\ calledOrdinary /\ calledAdmitted
  /\ ~lastCall.ret.allowed
  /\ lastCall.ret.message = <<"quota", lastCall.numImages, dailyFreeLimit, 0, dailyFreeLimit>>

\* C14: consumeQuota(units) takes from the free allowance first and only the rest
\* from the purchased balance: freeUsed = min(units, max(0, dailyFreeLimit - daily))
\* after the lazy reset, purchasedUsed = min(units - freeUsed, remainingPurchasedCount),
\* the account's dailyUsageCount grows by freeUsed and its remainingPurchasedCount
\* shrinks by purchasedUsed, and consumptionType names what was used.
C14_FreeFirstThenPurchased ==
  lastCall.op = "consumeQuota" =>
    LET acc == calledAccount
        daily == IF acc.lastDailyReset = toDateString(lastCall.at)
                   THEN acc.dailyUsageCount ELSE 0
        allowance == IF dailyFreeLimit - daily > 0 THEN dailyFreeLimit - daily ELSE 0
        freeUsed == IF lastCall.numImages < allowance THEN lastCall.numImages ELSE allowance
        rest == lastCall.numImages - freeUsed
        purchasedUsed == IF rest < acc.remainingPurchasedCount
                           THEN rest ELSE acc.remainingPurchasedCount
        after == usersCache[lastCall.userId]
    IN  /\ lastCall.ret.freeUsed = freeUsed
        /\ lastCall.ret.purchasedUsed = purchasedUsed
        /\ after.dailyUsageCount = daily + freeUsed
        /\ after.remainingPurchasedCount = acc.remainingPurchasedCount - purchasedUsed
        /\ lastCall.ret.userData = after
        /\ freeUsed > 0 /\ purchasedUsed > 0 => lastCall.ret.consumptionType = "mixed"
        /\ freeUsed > 0 /\ purchasedUsed = 0 => lastCall.ret.consumptionType = "free"
        /\ freeUsed = 0 /\ purchasedUsed > 0 => lastCall.ret.consumptionType = "purchased"

\* a consumeQuota used up the free allowance and took the rest from the purchased
\* balance
C14_Witness ==
  /\ lastCall.op = "consumeQuota"
  /\ lastCall.ret.consumptionType = "mixed"
  /\ lastCall.ret.freeUsed = dailyFreeLimit
  /\ lastCall.ret.purchasedUsed = lastCall.numImages - dailyFreeLimit
  /\ calledAccount.remainingPurchasedCount > lastCall.ret.purchasedUsed

\* C15: the daily reset is lazy. checkAndReserveQuota counts the day's usage as 0 when
\* lastDailyReset is not today and stores nothing; the first consumeQuota after the day
\* change sets dailyUsageCount to 0 and lastDailyReset to today before it deducts, a
\* consumeQuota on the day of lastDailyReset resets nothing; with the free allowance
\* used up yesterday a check for 1 unit is allowed and the consumeQuota of 1 unit
\* reports freeUsed = 1, purchasedUsed = 0.
C15_LazyDailyReset ==
  LET acc == calledAccount
      today == toDateString(lastCall.at)
      after == usersCache[lastCall.userId]
  IN
  /\ lastCall.op = "checkAndReserveQuota" /\ lastCall.userId \in DOMAIN lastCall.cache
       => after = acc
  /\ lastCall.op = "checkAndReserveQuota" /\ calledOrdinary /\ calledAdmitted
       /\ acc.lastDailyReset # today
       => (lastCall.ret.allowed <=>
             dailyFreeLimit + acc.remainingPurchasedCount >= lastCall.numImages)
  /\ lastCall.op = "consumeQuota" /\ acc.lastDailyReset # today
       => /\ after.lastDailyReset = today
          /\ after.dailyUsageCount = lastCall.ret.freeUsed
          /\ lastCall.numImages = 1 => lastCall.ret.freeUsed = 1 /\ lastCall.ret.purchasedUsed = 0
  /\ lastCall.op = "consumeQuota" /\ acc.lastDailyReset = today
       => /\ after.lastDailyReset = acc.lastDailyReset
          /\ after.dailyUsageCount = acc.dailyUsageCount + lastCall.ret.freeUsed

\* the free allowance was used up on the day before; after a first call on the next
\* day, a consumeQuota of 1 unit made the reset and was a free use
C15_Witness ==
  /\ lastCall.op = "consumeQuota"
  /\ lastCall.n = 2
  /\ lastCall.numImages = 1
  /\ calledAccount.lastDailyReset # toDateString(lastCall.at)
  /\ calledAccount.dailyUsageCount = dailyFreeLimit
  /\ lastCall.ret.freeUsed = 1 /\ lastCall.ret.purchasedUsed = 0
  /\ usersCache[lastCall.userId].lastDailyReset = toDateString(lastCall.at)
  /\ usersCache[lastCall.userId].dailyUsageCount = 1

\* C16 as stated: after a checkAndReserveQuota, whatever it answered and whether or not
\* the user had an account, the account table in memory and on disk is what it was
\* before the call.
C16_CheckLeavesTables ==
  lastCall.op = "checkAndReserveQuota" =>
    usersCache = lastCall.cache /\ usersDisk = lastCall.disk

\* C16 amended: checkAndReserveQuota changes no field of any account that exists; for
\* an ordinary user without an account whom the rate limiter admitted it creates one
\* with zero counts and zero balances and writes the table to disk, whether it then
\* allows or denies, and it adds no other account.
C16_CheckOnlyCreatesAccount ==
  lastCall.op = "checkAndReserveQuota" =>
    /\ \A u \in DOMAIN lastCall.cache :
         u \in DOMAIN usersCache /\ usersCache[u] = lastCall.cache[u]
    /\ \A u \in DOMAIN lastCall.disk :
         u \in DOMAIN usersDisk /\ usersDisk[u] = lastCall.disk[u]
    /\ DOMAIN usersCache =
         IF calledOrdinary /\ calledAdmitted
           THEN DOMAIN lastCall.cache \cup {lastCall.userId} ELSE DOMAIN lastCall.cache
    /\ lastCall.userId \in DOMAIN usersCache \ DOMAIN lastCall.cache
         => /\ usersCache[lastCall.userId] =
                 [totalUsageCount |-> 0, dailyUsageCount |-> 0,
                  lastDailyReset |-> toDateString(lastCall.at),
                  purchasedCount |-> 0, remainingPurchasedCount |-> 0]
            /\ usersDisk = usersCache

\* a user without an account asked for more than a new account holds: the check
\* denied, and the new account is in memory and on disk
C16_Witness ==
  /\ lastCall.op = "checkAndReserveQuota"
  /\ lastCall.userId \notin DOMAIN lastCall.cache
  /\ lastCall.userId \notin DOMAIN lastCall.disk
  /\ ~lastCall.ret.allowed
  /\ lastCall.ret.message[1] = "quota"
  /\ lastCall.userId \in DOMAIN usersCache
  /\ lastCall.userId \in DOMAIN usersDisk

\* C17: for an admin userId or a platform of unlimitedPlatforms checkAndReserveQuota
\* answers allowed with the sentinel token, whatever the rate window and the balances
\* are, and changes neither the rate windows nor the account table.
C17_ExemptBypass ==
  lastCall.op = "checkAndReserveQuota"
    /\ (lastCall.userId \in adminUsers \/ lastCall.platform \in unlimitedPlatforms)
    => /\ lastCall.ret.allowed
       /\ lastCall.ret.reservationId =
            IF lastCall.userId \in adminUsers THEN "admin" ELSE "platform_exempt"
       /\ lastCall.ret.message = << >>
       /\ rateLimitMap = lastCall.rate
       /\ usersCache = lastCall.cache
       /\ usersDisk = lastCall.disk

\* an ordinary user with a full rate window and nothing left asked on an exempt
\* platform for more than one unit and was allowed
C17_Witness ==
  /\ lastCall.op = "checkAndReserveQuota"
  /\ lastCall.userId \notin adminUsers
  /\ lastCall.platform \in unlimitedPlatforms
  /\ ~calledAdmitted
  /\ lastCall.userId \in DOMAIN lastCall.cache
  /\ calledAccount.lastDailyReset = toDateString(lastCall.at)
  /\ calledAccount.dailyUsageCount = dailyFreeLimit
  /\ calledAccount.remainingPurchasedCount = 0
  /\ lastCall.numImages > 1
  /\ lastCall.ret.allowed

\* C18: recordUsageOnly(userId, units) adds units to totalUsageCount and leaves
\* dailyUsageCount, lastDailyReset, purchasedCount and remainingPurchasedCount of the
\* account and every other account as they were; recordUserUsage calls it instead of
\* consumeQuota exactly when the user is an admin or the platform is exempt.
C18_RecordUsageOnlyFrame ==
  /\ lastCall.op = "recordUsageOnly" =>
       LET acc == calledAccount
           after == usersCache[lastCall.userId]
       IN  /\ after.totalUsageCount = acc.totalUsageCount + lastCall.numImages
           /\ after.dailyUsageCount = acc.dailyUsageCount
           /\ after.lastDailyReset = acc.lastDailyReset
           /\ after.purchasedCount = acc.purchasedCount
           /\ after.remainingPurchasedCount = acc.remainingPurchasedCount
           /\ lastCall.ret.userData = after
           /\ DOMAIN usersCache = DOMAIN lastCall.cache \cup {lastCall.userId}
           /\ \A u \in DOMAIN lastCall.cache \ {lastCall.userId} :
                usersCache[u] = lastCall.cache[u]
  /\ lastCall.op \in {"recordUsageOnly", "consumeQuota"} =>
       (lastCall.op = "recordUsageOnly"
          <=> lastCall.userId \in adminUsers \/ lastCall.platform \in unlimitedPlatforms)

\* an admin's usage was recorded on the day after the account's last reset, while
\* another user held an account with a purchased balance
C18_Witness ==
  /\ lastCall.op = "recordUsageOnly"
  /\ lastCall.n = 2
  /\ lastCall.userId \in adminUsers
  /\ lastCall.userId \in DOMAIN lastCall.cache
  /\ calledAccount.lastDailyReset # toDateString(lastCall.at)
  /\ usersCache[lastCall.userId].totalUsageCount > lastCall.numImages
  /\ \E u \in DOMAIN usersCache \ {lastCall.userId} : usersCache[u].remainingPurchasedCount > 0

\* C19 as stated: a pending-job record leaves the ledger only when it is marked charged
\* or when the job has failed; no step of the submission flow or of a query removes
\* the record of a submitted job that is uncharged and not failed.
C19_DeletedOnlyChargedOrFailed ==
  [][\A t \in VideoRequests :
       t \in pendingVideoCache /\ t \notin pendingVideoCache'
         => t \in chargedTasks \/ jobStatus[t] = "failed"]_vars

\* C20: where a poll of the flow, the query by id of the record's owner or the list
\* query learns that the job failed, the record is gone after the step and nothing is
\* charged, and a failed job is never charged; where it learns that the job is still
\* processing, the record, its charged flag, the charges and the accounts stay as
\* they were.
C20_FailedDeletedPendingKept ==
  /\ [](\A t \in VideoRequests : jobStatus[t] = "failed" => chargeCalls[t] = 0)
  /\ [][\A r \in VideoRequests, sent \in BOOLEAN :
          /\ (VFirstPollOf(r, TRUE, sent) \/ VSecondPollOf(r, TRUE, sent))
               /\ jobStatus[r] = "failed"
               => /\ r \notin pendingVideoCache'
                  /\ vOutcome'[r] = "failed"
                  /\ chargeCalls' = chargeCalls /\ usersCache' = usersCache
          /\ (VFirstPollOf(r, TRUE, sent) \/ VSecondPollOf(r, TRUE, sent))
               /\ jobStatus[r] = "processing"
               => /\ pendingVideoCache' = pendingVideoCache
                  /\ chargedTasks' = chargedTasks
                  /\ chargeCalls' = chargeCalls /\ usersCache' = usersCache]_vars
  /\ [][\A q \in Queries :
          LET t == qTask[q]
              owned == ~(t \in pendingVideoCache /\ vUser[t] # qUser[q])
          IN  /\ QueryGetOf(q) /\ owned /\ qStatus[q] = "failed"
                   => /\ t \notin pendingVideoCache'
                      /\ chargeCalls' = chargeCalls /\ usersCache' = usersCache
              /\ QueryGetOf(q) /\ owned /\ qStatus[q] = "processing"
                   => /\ pendingVideoCache' = pendingVideoCache
                      /\ chargedTasks' = chargedTasks
                      /\ chargeCalls' = chargeCalls /\ usersCache' = usersCache]_vars
  /\ [][\A q \in Queries, t \in VideoRequests :
          /\ QueryNextOf(q, t, TRUE) /\ jobStatus[t] = "failed"
               => /\ t \notin pendingVideoCache'
                  /\ chargeCalls' = chargeCalls /\ usersCache' = usersCache
          /\ QueryNextOf(q, t, TRUE) /\ jobStatus[t] = "processing"
               => /\ pendingVideoCache' = pendingVideoCache
                  /\ chargedTasks' = chargedTasks
                  /\ chargeCalls' = chargeCalls /\ usersCache' = usersCache]_vars

\* a job that the flow left pending failed afterwards; a query has removed its record
\* and the job was never charged
C20_Witness ==
  \E t \in VideoRequests :
    /\ jobStatus[t] = "failed"
    /\ vpc[t] = "done" /\ vOutcome[t] = "pending"
    /\ t \notin pendingVideoCache
    /\ chargeCalls[t] = 0

\* C21: with max = 1 an addPendingVideoTaskWithLimit for a user who has an uncharged
\* record is refused with a message naming the current count and the max and inserts
\* nothing; when the user has no uncharged record (none yet, or the earlier one was
\* marked charged and deleted) it succeeds and the record is inserted.
C21_AddRefusedWhileOutstanding ==
  [][\A r \in VideoRequests :
       vpc[r] = "add" /\ vpc'[r] # "add" =>
         LET outstanding == {t \in pendingVideoCache : vUser[t] = vUser[r] /\ t \notin chargedTasks}
             n == Cardinality(outstanding)
         IN  IF n >= 1
               THEN /\ addResult(vUser[r]) = [success |-> FALSE, message |-> <<"limit", n, 1>>]
                    /\ pendingVideoCache' = pendingVideoCache
                    /\ vOutcome'[r] = "queueFull"
               ELSE /\ addResult(vUser[r]).success
                    /\ pendingVideoCache' = pendingVideoCache \cup {r}
                    /\ vpc'[r] = "startMessage"]_vars

\* a user's second submission was refused while the first job's record was uncharged
C21_Witness ==
  \E r, t \in VideoRequests :
    /\ r # t /\ vUser[r] = vUser[t]
    /\ vpc[r] = "done" /\ vOutcome[r] = "queueFull"
    /\ t \in pendingVideoCache /\ t \notin chargedTasks
    /\ r \notin pendingVideoCache

\* C22: marking a record that is already charged changes nothing and its chargedAt
\* keeps the first value; marking or deleting an absent record changes nothing; a
\* second mark or delete after the first changes nothing more; and the charged flag
\* and chargedAt of a record that stays in the table are never taken back, whatever
\* is called.
C22_MarkAndDeleteIdempotent ==
  LET t == lastCall.taskId
      tableUnchanged == /\ pendingVideoCache = lastCall.pending
                        /\ chargedTasks = lastCall.charged
                        /\ chargedAt = lastCall.stamps
  IN
  /\ lastCall.op = "markPendingVideoTaskCharged" =>
       /\ t \notin lastCall.pending \/ t \in lastCall.charged => tableUnchanged
       /\ t \in lastCall.pending /\ t \notin lastCall.charged =>
            /\ t \in chargedTasks /\ chargedAt[t] = lastCall.at
            /\ pendingVideoCache = lastCall.pending
            /\ \A o \in VideoRequests \ {t} :
                 (o \in chargedTasks <=> o \in lastCall.charged)
                   /\ chargedAt[o] = lastCall.stamps[o]
  /\ lastCall.op = "deletePendingVideoTask" =>
       /\ t \notin lastCall.pending => tableUnchanged
       /\ pendingVideoCache = lastCall.pending \ {t}
       /\ chargedTasks = lastCall.charged /\ chargedAt = lastCall.stamps
  /\ lastCall.op \in {"markPendingVideoTaskCharged", "deletePendingVideoTask",
                      "addPendingVideoTaskWithLimit"} =>
       \A o \in lastCall.pending \cap lastCall.charged \cap pendingVideoCache :
         o \in chargedTasks /\ chargedAt[o] = lastCall.stamps[o]

\* a record charged at an earlier time was marked again, while another record is absent
C22_Witness ==
  /\ lastCall.op = "markPendingVideoTaskCharged"
  /\ lastCall.taskId \in lastCall.pending
  /\ lastCall.taskId \in lastCall.charged
  /\ lastCall.stamps[lastCall.taskId] < lastCall.at
  /\ chargedAt[lastCall.taskId] = lastCall.stamps[lastCall.taskId]

\* C23: a video command reaches the sending of its start message only from the
\* insertion of its pending record, which happens after createVideoTask succeeded and
\* leaves the record in the table with charged = false; the delay and the first poll
\* come only after the start message. While the command is at the start message its
\* record is in the table unless a query has charged the job or seen it failed.
C23_RecordBeforeAnyWait ==
  /\ [][\A r \in VideoRequests :
          /\ vpc[r] # "startMessage" /\ vpc'[r] = "startMessage" =>
               /\ vpc[r] = "add"
               /\ jobStatus[r] # "none"
               /\ r \notin pendingVideoCache
               /\ r \in pendingVideoCache' /\ r \notin chargedTasks'
          /\ vpc[r] # "poll1" /\ vpc'[r] = "poll1" => vpc[r] = "startMessage"
          /\ vpc[r] # "poll2" /\ vpc'[r] = "poll2" => vpc[r] = "poll1"]_vars
  /\ [](\A r \in VideoRequests :
          vpc[r] = "startMessage" /\ r \notin pendingVideoCache
            => r \in chargedTasks \/ jobStatus[r] = "failed")

\* a command is about to send its start message; its job runs and its record is in
\* the table, uncharged
C23_Witness ==
  \E r \in VideoRequests :
    /\ vpc[r] = "startMessage"
    /\ jobStatus[r] = "processing"
    /\ r \in pendingVideoCache /\ r \notin chargedTasks
    /\ chargeCalls[r] = 0

\* the timestamps of the recorded call's user that were inside the window at the call
calledValid ==
  SelectSeq(lastCall.rate[lastCall.userId],
            LAMBDA ts : ts > lastCall.at - rateLimitWindow * TicksPerSecond)

\* C24: for an ordinary user a check is admitted iff fewer than rateLimitMax admitted
\* checks lie inside the window of rateLimitWindow seconds before it: the first
\* rateLimitMax checks are admitted, the next one in the window is denied with a stated
\* wait w, 0 < w <= rateLimitWindow, and a check made once the window has elapsed since
\* the oldest recorded admission is admitted again; an admitted check is recorded with
\* its time, and no window of that length ever holds more than rateLimitMax recorded
\* admissions.
C24_RateWindow ==
  /\ lastCall.op = "checkAndReserveQuota" /\ calledOrdinary =>
       LET u == lastCall.userId
           before == lastCall.rate[u]
           denied == lastCall.ret.message # << >> /\ lastCall.ret.message[1] = "wait"
       IN  /\ denied <=> Len(calledValid) >= rateLimitMax
           /\ denied =>
                /\ ~lastCall.ret.allowed
                /\ lastCall.ret.message[2] > 0
                /\ lastCall.ret.message[2] <= rateLimitWindow
           /\ ~denied => rateLimitMap[u] = Append(calledValid, lastCall.at)
           /\ Len(before) < rateLimitMax => ~denied
           /\ before # << >> /\ lastCall.at >= before[1] + rateLimitWindow * TicksPerSecond
                => ~denied
  /\ \A u \in Users :
       /\ Len(rateLimitMap[u]) <= rateLimitMax
       /\ \A t0 \in 0..MaxNow :
            Cardinality({i \in DOMAIN rateLimitMap[u] :
                           /\ rateLimitMap[u][i] > t0 - rateLimitWindow * TicksPerSecond
                           /\ rateLimitMap[u][i] <= t0}) <= rateLimitMax

\* the user's window was full of admissions made at time 0; the check made at the
\* moment the window had elapsed, the fifth of the run, was admitted and is the only
\* entry of the window
C24_Witness ==
  /\ lastCall.op = "checkAndReserveQuota" /\ calledOrdinary
  /\ lastCall.n = rateLimitMax + 2
  /\ Len(lastCall.rate[lastCall.userId]) = rateLimitMax
  /\ lastCall.rate[lastCall.userId][1] = 0
  /\ lastCall.at = rateLimitWindow * TicksPerSecond
  /\ lastCall.ret.allowed
  /\ rateLimitMap[lastCall.userId] = <<lastCall.at>>
  /\ usersCache # << >>

\* C25: a check the rate limiter denies adds no timestamp to the user's window (the
\* window is the one before the call without its expired entries), so however many
\* denied attempts came just before, a check made once the window has elapsed since the
\* oldest recorded admission is admitted.
C25_DeniedNotRecorded ==
  lastCall.op = "checkAndReserveQuota" /\ calledOrdinary =>
    LET u == lastCall.userId
        before == lastCall.rate[u]
        denied == lastCall.ret.message # << >> /\ lastCall.ret.message[1] = "wait"
    IN  /\ denied =>
              /\ rateLimitMap[u] = calledValid
              /\ \A i \in DOMAIN rateLimitMap[u] : rateLimitMap[u][i] # lastCall.at
                   \/ \E k \in DOMAIN before : before[k] = lastCall.at
              /\ Len(rateLimitMap[u]) <= Len(before)
              /\ \A o \in Users \ {u} : rateLimitMap[o] = lastCall.rate[o]
        /\ lastCall.streak > 0 /\ before # << >>
             /\ lastCall.at >= before[1] + rateLimitWindow * TicksPerSecond
             => ~denied

\* after two denied attempts the user was admitted at the moment the window of the
\* oldest admission elapsed
C25_Witness ==
  /\ lastCall.op = "checkAndReserveQuota" /\ calledOrdinary
  /\ lastCall.streak >= 2
  /\ lastCall.rate[lastCall.userId][1] = 0
  /\ lastCall.at = rateLimitWindow * TicksPerSecond
  /\ lastCall.ret.allowed

\* C26: for an ordinary user whose rejections all fall inside one security window,
\* the rejections before number securityBlockWarningThreshold return neither signal,
\* that number returns shouldWarn, and every later one returns shouldDeduct; whatever
\* the timing, shouldWarn is returned at most once per user and the warned latch is
\* never cleared.
C26_WarnOnceThenDeduct ==
  /\ lastCall.op = "recordSecurityBlock" /\ lastCall.userId \notin adminUsers =>
       LET u == lastCall.userId
           k == lastCall.count[u]
           oneWindow == lastCall.at - lastCall.first[u] < securityBlockWindow * TicksPerSecond
       IN  /\ oneWindow /\ k < securityBlockWarningThreshold =>
                ~lastCall.ret.shouldWarn /\ ~lastCall.ret.shouldDeduct
           /\ oneWindow /\ k = securityBlockWarningThreshold =>
                lastCall.ret.shouldWarn /\ ~lastCall.ret.shouldDeduct
                  /\ lastCall.warns[u] = 1
           /\ oneWindow /\ k > securityBlockWarningThreshold =>
                lastCall.ret.shouldDeduct /\ ~lastCall.ret.shouldWarn
                  /\ lastCall.warns[u] = 1
           /\ lastCall.ret.shouldWarn => securityWarningMap[u]
  /\ lastCall.op = "recordSecurityBlock" =>
       \A u \in Users :
         /\ lastCall.warns[u] <= 1
         /\ lastCall.warned[u] => securityWarningMap[u]
         /\ u \in adminUsers => lastCall.warns[u] = 0

\* the rejection after the warned one, inside the window of the first, returned
\* shouldDeduct and the request's two units were charged
C26_Witness ==
  /\ lastCall.op = "recordSecurityBlock" /\ lastCall.userId \notin adminUsers
  /\ lastCall.count[lastCall.userId] = securityBlockWarningThreshold + 1
  /\ lastCall.at - lastCall.first[lastCall.userId] < securityBlockWindow * TicksPerSecond
  /\ lastCall.warned[lastCall.userId]
  /\ lastCall.ret.shouldDeduct
  /\ lastCall.numImages = 2
  /\ unitsPassed[lastCall.userId] = lastCall.passed[lastCall.userId] + 2
  /\ lastCall.warns[lastCall.userId] = 1

C28_NothingAfterFlag ==
  [][\A r \in ImageRequests :
       isTimeout[r] =>
         /\ sentImages'[r] <= sentImages[r]
         /\ ipc[r] = "charging" => usageCalls'[r] <= usageCalls[r]]_vars

\* C28 amended: the deadline sets the flag and leaves processImage where it is, still
\* holding its gate.  A streaming callback invoked after the flag is set sends nothing
\* and charges nothing, and no callback starts its send once the flag is set; only the
\* callback that had passed its test of the flag when the deadline fired still
\* completes its send and its charge.
C28_CallbacksAfterFlagSuppressed ==
  [][\A r \in ImageRequests :
       /\ ~isTimeout[r] /\ isTimeout'[r] =>
            /\ ipc'[r] = ipc[r] /\ ipc[r] \in Running
            /\ activeTasks' = activeTasks
            /\ sentImages' = sentImages /\ usageCalls' = usageCalls
       /\ isTimeout[r] /\ allImages'[r] > allImages[r] =>
            /\ ipc'[r] = "provider"
            /\ sentImages' = sentImages /\ usageCalls' = usageCalls
            /\ unitsPassed' = unitsPassed /\ usersCache' = usersCache
       /\ ipc[r] # "sending" /\ ipc'[r] = "sending" => ~isTimeout[r]
       /\ isTimeout[r] /\ ipc[r] \notin {"sending", "charging"} =>
            /\ sentImages'[r] <= sentImages[r]
            /\ ipc'[r] \notin {"sending", "charging"}]_vars

\* the deadline has fired and the user has the timeout message while a callback that
\* started before is still sending its image; processImage still holds the gate
C28_Witness ==
  \E r \in ImageRequests :
    /\ isTimeout[r] /\ iOutcome[r] = "timeout"
    /\ iStream[r] /\ ipc[r] = "sending"
    /\ activeTasks[iUser[r]] = r
    /\ allImages[r] = sentImages[r] + 1

\* C29 as stated: updateUsersBatch is all-or-nothing: when the disk write fails no
\* account of the batch is credited, the table in memory and the table on disk are
\* what they were before the call; when it succeeds every account of the batch is
\* credited in memory and on disk.
C29_BatchAllOrNothing ==
  lastCall.op = "recharge" =>
    IF lastCall.diskOk
      THEN /\ usersCache = creditAll(lastCall.cache, lastCall.userIds, lastCall.amount, now)
           /\ usersDisk = usersCache
      ELSE /\ usersCache = lastCall.cache
           /\ usersDisk = lastCall.disk

\* C30 as stated: after an addRechargeRecord call, also one during which the read of
\* the history file fails, the persisted list is the previous list with the new
\* record appended; no earlier record is removed, reordered or changed.
C30_HistoryAppendOnly ==
  lastCall.op = "recharge" =>
    /\ Len(rechargeHistory) >= Len(lastCall.history)
    /\ Len(rechargeHistory) <= Len(lastCall.history) + 1
    /\ \A i \in DOMAIN lastCall.history : rechargeHistory[i] = lastCall.history[i]

\* C31: on each table lock the bodies of two acquire calls never overlap, not
\* even while one is suspended at a file operation; the bodies are started in
\* the order in which acquire was called; and the table a suspended body read
\* is still the table when it resumes (no other caller's read-modify-write
\* falls inside its own).
C31_MutualExclusionFifo ==
  /\ \A c, d \in Callers :
       c # d /\ cTable[c] = cTable[d] => ~(inBody(c) /\ inBody(d))
  /\ \A l \in Locks :
       /\ Len(runOrder[l]) <= Len(callOrder[l])
       /\ runOrder[l] = SubSeq(callOrder[l], 1, Len(runOrder[l]))
  /\ \A c \in Callers : cpc[c] = "body" => cSnapshot[c] = tableLog[cTable[c]]

\* two bodies have run on the accounts lock after the loading body, the second
\* is suspended while holding the first one's write, and a third caller waits
C31_Witness ==
  \E c, d \in Callers :
    /\ cTable[c] = "data" /\ cTable[d] = "data"
    /\ cpc[c] = "body" /\ cpc[d] = "wait"
    /\ Len(tableLog["data"]) = 1
    /\ cSnapshot[c] = tableLog["data"]
    /\ Len(callOrder["data"]) > Len(runOrder["data"])
    /\ Len(runOrder["data"]) >= 3

\* C32: an operation that has returned or thrown has released its lock (its
\* promise is resolved), the caller got the error exactly when its write threw
\* (then the table does not hold its mutation, otherwise it does), and every
\* caller that waits for a lock, also behind a body that throws, eventually
\* runs its body and finishes, the bodies being started in call order.
C32_ErrorPropagatedLockReleased ==
  /\ [](\A c \in Callers :
          cpc[c] = "done" =>
            /\ nextPromise(c) \in resolved
            /\ cOutcome[c] \in {"ok", "error"}
            /\ cOutcome[c] = "ok" <=>
                 \E i \in DOMAIN tableLog[cTable[c]] : tableLog[cTable[c]][i] = c)
  /\ [](\A l \in Locks :
          /\ Len(runOrder[l]) <= Len(callOrder[l])
          /\ runOrder[l] = SubSeq(callOrder[l], 1, Len(runOrder[l])))
  /\ <>[](\A c \in Callers : cpc[c] \in {"idle", "done"})

\* on the history lock the first caller's write threw, and the two callers that
\* were queued behind it have both run, the last one successfully
C32_Witness ==
  /\ callOrder["history"] = <<nextPromise(1), nextPromise(2), nextPromise(3)>>
  /\ runOrder["history"] = callOrder["history"]
  /\ cOutcome[1] = "error" /\ cOutcome[3] = "ok"
  /\ \A c \in Callers : cpc[c] = "done"
  /\ \A c \in Callers : nextPromise(c) \in resolved

\* C34: no body waits for a lock (no caller is ever stopped inside its body at
\* a nested acquire), whenever an invoked operation has not finished some
\* continuation can run, and under fair scheduling the invoked operations all
\* finish again and again, also when several of them found the cache not
\* loaded and queued a loading body each.
C34_DeadlockFree ==
  /\ [](\A c \in Callers : cpc[c] # "nested")
  /\ []((\E c \in Callers : cpc[c] \notin {"idle", "done"}) => ENABLED LockRun)
  /\ []<>(\A c \in Callers : cpc[c] \in {"idle", "done"})

\* three operations on the accounts table were invoked before the cache was
\* loaded, each queued a loading body and then its own body, and all have run
C34_Witness ==
  /\ \A c \in Callers : cTable[c] = "data" /\ cpc[c] = "done"
  /\ SubSeq(callOrder["data"], 1, 3) = <<loadPromise(1), loadPromise(2), loadPromise(3)>>
  /\ Len(runOrder["data"]) = 2 * NumCallers
  /\ loaded["data"]

\* C33: after each account-table mutation (account creation, consumeQuota,
\* recordUsageOnly, updateUsersBatch) has returned or thrown, the account cache
\* and users_data.json hold the same data.
C33_CacheAndDiskTogether ==
  lastCall.op # "none" => usersCache = usersDisk

\* C35: every video job the provider has accepted and that is neither charged
\* nor failed has a pending record, from the step after createVideoTask
\* returned (the call of addPendingVideoTaskWithLimit) onwards.
C35_SubmittedJobTracked ==
  \A t \in VideoRequests :
    /\ jobStatus[t] \in {"processing", "completed"}
    /\ vpc[t] # "add"
    /\ chargeCalls[t] = 0
    => t \in pendingVideoCache

\* C36 (image commands): a usage charge of an image command is made only after
\* session.send has delivered one of its images; when every send of a result
\* threw, the command makes no usage charge.
C36_ChargeFollowsDelivery ==
  \A r \in ImageRequests : usageCalls[r] > 0 => sentImages[r] > 0

\* C37: a consumeQuota call for n units returns freeUsed + purchasedUsed <= n,
\* with equality exactly when the free allowance left for the day of the call
\* plus the purchased balance covered n (otherwise the rest is dropped and the
\* call still returns); and no account's dailyUsageCount exceeds dailyFreeLimit.
C37_ConsumedWithinRequest ==
  /\ \A u \in DOMAIN usersCache : usersCache[u].dailyUsageCount <= dailyFreeLimit
  /\ lastCall.op = "consumeQuota" =>
       LET acc == calledAccount
           freeLeft == IF acc.lastDailyReset = toDateString(lastCall.at)
                         THEN dailyFreeLimit - acc.dailyUsageCount
                         ELSE dailyFreeLimit
           available == freeLeft + acc.remainingPurchasedCount
           used == lastCall.ret.freeUsed + lastCall.ret.purchasedUsed
       IN  /\ lastCall.ret.freeUsed >= 0 /\ lastCall.ret.purchasedUsed >= 0
           /\ used <= lastCall.numImages
           /\ used = lastCall.numImages <=> available >= lastCall.numImages
           /\ used < lastCall.numImages => used = available

\* a call for more units than the account could cover: the free allowance was
\* taken, no purchased unit was left, the rest was dropped, and the day's
\* counter stands at the limit
C37_Witness ==
  /\ lastCall.op = "consumeQuota"
  /\ lastCall.numImages > lastCall.ret.freeUsed + lastCall.ret.purchasedUsed
  /\ lastCall.ret.freeUsed > 0 /\ lastCall.ret.purchasedUsed = 0
  /\ usersCache[lastCall.userId].dailyUsageCount = dailyFreeLimit
  /\ usersCache[lastCall.userId].remainingPurchasedCount = 0

\* C38: recordSecurityBlock never returns shouldWarn and shouldDeduct together;
\* it returns shouldDeduct only for a user whose warned latch was set before
\* the call; for an administrator it returns neither, with blockCount 0, and
\* leaves the rejection windows, the latches and the accounts as they were.
C38_SignalsExclusive ==
  lastCall.op = "recordSecurityBlock" =>
    /\ ~(lastCall.ret.shouldWarn /\ lastCall.ret.shouldDeduct)
    /\ lastCall.ret.shouldDeduct => lastCall.warned[lastCall.userId]
    /\ lastCall.userId \in adminUsers =>
         /\ ~lastCall.ret.shouldWarn /\ ~lastCall.ret.shouldDeduct
         /\ lastCall.ret.blockCount = 0
         /\ securityBlockMap = lastCall.blocks
         /\ securityWarningMap = lastCall.warned
         /\ unitsPassed = lastCall.passed

\* an administrator's third rejection in a row, while an ordinary user has not
\* been rejected at all: still no signal, no window and no latch
C38_Witness ==
  /\ lastCall.op = "recordSecurityBlock"
  /\ lastCall.userId \in adminUsers
  /\ lastCall.count[lastCall.userId] = MaxBlocks
  /\ securityBlockMap[lastCall.userId] = << >>
  /\ ~securityWarningMap[lastCall.userId]
  /\ lastCall.ret.blockCount = 0

\* C39: a 查询视频 <taskId> command that finds the task's pending record owned
\* by another user returns at its ownership check and changes neither the
\* record nor any account; a query that delivers or bills a task for which it
\* holds a record is the record owner's; and every video charge, of a flow or
\* of a query, is booked on the owner of the task's record.
C39_ForeignQueryInert ==
  /\ [](\A q \in Queries :
          /\ qpc[q] = "send" /\ qPending[q] => qUser[q] = vUser[qTask[q]]
          /\ qpc[q] \in {"charge", "mark", "delete"} => qUser[q] = vUser[qTask[q]])
  /\ [][\A q \in Queries :
          /\ qpc[q] = "get" /\ qpc'[q] # "get"
          /\ qTask[q] \in pendingVideoCache
          /\ vUser[qTask[q]] # qUser[q]
          => /\ qpc'[q] = "done"
             /\ UNCHANGED <<pendingVideoCache, chargedTasks, chargeCalls, unitsPassed,
                            usersCache>>]_vars
  /\ [][\A u \in Users :
          unitsPassed'[u] # unitsPassed[u] =>
            \/ \E q \in Queries : qpc[q] = "charge" /\ qUser[q] = u /\ vUser[qTask[q]] = u
            \/ \E r \in VideoRequests : vpc[r] = "charge" /\ vUser[r] = u]_vars

\* the administrator queries by id a completed job whose uncharged record
\* belongs to alice, and is about to reach the ownership check
C39_Witness ==
  \E q \in Queries :
    /\ qpc[q] = "get"
    /\ qUser[q] = "bob"
    /\ qStatus[q] = "completed"
    /\ qTask[q] \in pendingVideoCache
    /\ qTask[q] \notin chargedTasks
    /\ vUser[qTask[q]] = "alice"

\* C40: a recharge command that reports success (neither the write of the
\* accounts nor the write of the history threw) has credited every target
\* account with the amount, once per mention, and has appended one record
\* whose targets satisfy afterBalance = beforeBalance + amount and whose
\* totalAmount is the sum of the amounts; a command that reports failure has
\* changed no balance, in memory or on disk.
C40_RechargeAtomicWithRecord ==
  lastCall.op = "recharge" =>
    IF lastCall.diskOk /\ lastCall.writeOk
      THEN /\ \A i \in DOMAIN lastCall.userIds :
                LET u == lastCall.userIds[i]
                    before == accountOf(lastCall.cache, u, now)
                    credit == lastCall.amount * occurrences(lastCall.userIds, u)
                IN  /\ usersCache[u].purchasedCount = before.purchasedCount + credit
                    /\ usersCache[u].remainingPurchasedCount =
                         before.remainingPurchasedCount + credit
           /\ rechargeHistory # << >>
           /\ LET record == rechargeHistory[Len(rechargeHistory)]
              IN  /\ Len(record.targets) = Len(lastCall.userIds)
                  /\ \A i \in DOMAIN record.targets :
                       /\ record.targets[i].userId = lastCall.userIds[i]
                       /\ record.targets[i].afterBalance =
                            record.targets[i].beforeBalance + lastCall.amount
                  /\ record.totalAmount = lastCall.amount * Len(record.targets)
      ELSE /\ usersCache = lastCall.cache
           /\ usersDisk = lastCall.disk
====
